---- MODULE Spec2Model ----
(***************************************************************************)
(* Model of the editor-skill patch engine (editor-skill/run.js):           *)
(* path sandbox, allow-list, unified-diff parser and applier, JSON-patch   *)
(* engine and the applyPatch handlers.                                     *)
(*                                                                         *)
(* Strings are sequences of one-character strings, so that startsWith,     *)
(* substring, split and join are computed as the code computes them.       *)
(* A file's text is held as the sequence of its lines, i.e. as the value   *)
(* of text.split('\n'); join('\n') of a line array is that array, except   *)
(* that the empty array joins to the empty string, whose split is <<"">>.  *)
(***************************************************************************)
EXTENDS Integers, Sequences, FiniteSets, TLC

\* ------------------------------------------------------------------------
\* Bounds of the model
\* ------------------------------------------------------------------------
MaxPatches == 2
MaxOps == 2
MaxContent == 3
MaxHunkLines == 3
MaxPathLen == 2
MaxHunks == 2
MaxLines == 3
MaxChunks == 3

\* ------------------------------------------------------------------------
\* String helpers (String.prototype.startsWith / substring / split / trim)
\* ------------------------------------------------------------------------
StartsWith(s, pre) ==
  /\ Len(s) >= Len(pre)
  /\ SubSeq(s, 1, Len(pre)) = pre

Substring(s, n) == SubSeq(s, n + 1, Len(s))

RECURSIVE SplitAcc(_, _, _, _)
SplitAcc(s, sep, cur, acc) ==
  IF s = <<>> THEN Append(acc, cur)
  ELSE IF Head(s) = sep THEN SplitAcc(Tail(s), sep, <<>>, Append(acc, cur))
  ELSE SplitAcc(Tail(s), sep, Append(cur, Head(s)), acc)

\* s.split(sep) for a one-character separator: empty pieces are kept
Split(s, sep) == SplitAcc(s, sep, <<>>, <<>>)

RECURSIVE Join(_, _)
Join(parts, sep) ==
  IF parts = <<>> THEN <<>>
  ELSE IF Len(parts) = 1 THEN parts[1]
  ELSE parts[1] \o <<sep>> \o Join(Tail(parts), sep)

RECURSIVE TrimLeft(_)
TrimLeft(s) == IF s # <<>> /\ Head(s) = " " THEN TrimLeft(Tail(s)) ELSE s

RECURSIVE TrimRight(_)
TrimRight(s) ==
  IF s # <<>> /\ s[Len(s)] = " " THEN TrimRight(SubSeq(s, 1, Len(s) - 1)) ELSE s

Trim(s) == TrimRight(TrimLeft(s))

\* ------------------------------------------------------------------------
\* path module (POSIX): path.sep, path.isAbsolute, path.resolve, path.dirname
\* ------------------------------------------------------------------------
sep == "/"

isAbsolute(p) == p # <<>> /\ Head(p) = sep

RECURSIVE NormalizeSegs(_, _)
NormalizeSegs(segs, stack) ==
  IF segs = <<>> THEN stack
  ELSE LET h == Head(segs) IN
       IF h = <<>> \/ h = <<".">> THEN NormalizeSegs(Tail(segs), stack)
       ELSE IF h = <<".", ".">>
         THEN NormalizeSegs(Tail(segs),
                IF stack = <<>> THEN stack ELSE SubSeq(stack, 1, Len(stack) - 1))
       ELSE NormalizeSegs(Tail(segs), Append(stack, h))

\* canonical text of an absolute path: "/" + segments joined by "/"
Normalize(p) == <<sep>> \o Join(NormalizeSegs(Split(p, sep), <<>>), sep)

\* the workspace root handed to the handlers (context.cwd)
workspaceRoot == <<"/", "w">>

\* path.resolve(from, to); from is absolute
pathResolve(from, to) ==
  IF isAbsolute(to) THEN Normalize(to) ELSE Normalize(from \o <<sep>> \o to)

dirname(p) ==
  LET segs == NormalizeSegs(Split(p, sep), <<>>) IN
  IF segs = <<>> THEN <<sep>>
  ELSE <<sep>> \o Join(SubSeq(segs, 1, Len(segs) - 1), sep)

\* ------------------------------------------------------------------------
\* Filesystem.  A node is absent, a directory, a text file (its lines) or a
\* file holding a JSON document (doc) in some layout (fmt).  The modelled
\* filesystem has no symbolic links, so fs.realpathSync of a normalized
\* existing path is that path.
\* ------------------------------------------------------------------------
Absent == [k |-> "absent"]
Dir == [k |-> "dir"]
TextFile(ls) == [k |-> "text", lines |-> ls]
JsonFile(d, f) == [k |-> "json", doc |-> d, fmt |-> f]

\* directories that exist in every state: "/" and the workspace root
AlwaysDirs == {<<sep>>, workspaceRoot}

NodeAt(f, p) ==
  IF p \in AlwaysDirs THEN Dir
  ELSE IF p \in DOMAIN f THEN f[p] ELSE Absent

existsSync(f, p) == NodeAt(f, p).k # "absent"

fileExists(f, p) == existsSync(f, p)

isDirectory(f, p) == NodeAt(f, p).k = "dir"

realpathSync(f, p) == p

RECURSIVE MkdirP(_, _)
\* fs.mkdirSync(dir, {recursive: true})
MkdirP(f, dir) ==
  IF dir \in AlwaysDirs \/ dir \notin DOMAIN f THEN f
  ELSE IF f[dir].k = "absent"
    THEN [MkdirP(f, dirname(dir)) EXCEPT ![dir] = Dir]
  ELSE f

ensureDirSync(f, dir) == IF ~existsSync(f, dir) THEN MkdirP(f, dir) ELSE f

\* fs.writeFileSync(p, data) succeeds when p is not a directory and its
\* parent is one; otherwise it throws (EISDIR, ENOENT, ENOTDIR)
CanWrite(f, p) == ~isDirectory(f, p) /\ isDirectory(f, dirname(p))

writeFileSync(f, p, node) == [f EXCEPT ![p] = node]

\* ------------------------------------------------------------------------
\* Path security
\* ------------------------------------------------------------------------
\* Confined with the separator left out of the prefix test
ConfinedNoSep(resolved) ==
  LET normalizedRoot == pathResolve(workspaceRoot, <<>>) IN
  resolved = normalizedRoot \/ StartsWith(resolved, normalizedRoot)

\* resolved === root || resolved.startsWith(root + path.sep)
Confined(resolved) ==
  LET normalizedRoot == pathResolve(workspaceRoot, <<>>) IN
  resolved = normalizedRoot \/ StartsWith(resolved, normalizedRoot \o <<sep>>)

resolveSafePath(relativePath) ==
  LET resolved == pathResolve(workspaceRoot, relativePath) IN
  IF ~Confined(resolved)
    THEN [safe |-> FALSE, resolved |-> <<>>, error |-> "Path traversal denied"]
    ELSE [safe |-> TRUE, resolved |-> resolved, error |-> "none"]

\* ------------------------------------------------------------------------
\* Allow-list configuration.  A configuration is what the YAML file in
\* effect declares: source "agent" | "global" | "none" (no file, or an
\* empty one), the raw allowedPaths and externalAllowedPaths entries, and
\* whether reading the file throws.
\* ------------------------------------------------------------------------
InSeq(x, s) == \E i \in 1..Len(s) : s[i] = x

loadAllowedPathsConfig(c, f) ==
  IF c.throws \/ c.source = "none" THEN <<>>
  ELSE
    LET Canon(e) ==
          LET cand == pathResolve(workspaceRoot, e) IN
          IF fileExists(f, cand) THEN realpathSync(f, cand) ELSE cand
        NonBlank(e) == Trim(e) # <<>>
        exts == SelectSeq(c.externalAllowedPaths, NonBlank)
        externalResolved == [i \in 1..Len(exts) |-> Canon(exts[i])]
        Keep(e) ==
          \/ Confined(Canon(e))
          \/ /\ isAbsolute(e)
             /\ \/ InSeq(Canon(e), externalResolved)
                \/ c.source = "agent"
        kept == SelectSeq(SelectSeq(c.allowedPaths, NonBlank), Keep)
    IN externalResolved \o [i \in 1..Len(kept) |-> Canon(kept[i])]

\* isTargetAllowedByList with the separator left out of the directory test
isTargetAllowedByListNoSep(targetResolved, allowedList, f) ==
  IF allowedList = <<>> THEN TRUE
  ELSE \E i \in 1..Len(allowedList) :
         LET a == pathResolve(workspaceRoot, allowedList[i]) IN
         /\ allowedList[i] # <<>>
         /\ IF existsSync(f, a) /\ isDirectory(f, a)
              THEN targetResolved = a \/ StartsWith(targetResolved, a)
              ELSE targetResolved = a

isTargetAllowedByList(targetResolved, allowedList, f) ==
  IF allowedList = <<>> THEN TRUE
  ELSE \E i \in 1..Len(allowedList) :
         LET a == pathResolve(workspaceRoot, allowedList[i]) IN
         /\ allowedList[i] # <<>>
         /\ IF existsSync(f, a) /\ isDirectory(f, a)
              THEN targetResolved = a \/ StartsWith(targetResolved, a \o <<sep>>)
              ELSE targetResolved = a

\* The access check shared by handleGitDiff and handleJsonPatch: the
\* resolved path, or the denial the handler responds with.
ResolveTarget(filePath, c, f) ==
  LET allowed == loadAllowedPathsConfig(c, f) IN
  IF isAbsolute(filePath)
    THEN LET r0 == pathResolve(workspaceRoot, filePath)
             r == IF fileExists(f, r0) THEN realpathSync(f, r0) ELSE r0
         IN IF Len(allowed) > 0 /\ ~isTargetAllowedByList(r, allowed, f)
              THEN [ok |-> FALSE, resolved |-> <<>>, error |-> "Access denied by allowedPaths policy"]
              ELSE [ok |-> TRUE, resolved |-> r, error |-> "none"]
    ELSE LET s == resolveSafePath(filePath) IN
         IF ~s.safe
           THEN [ok |-> FALSE, resolved |-> <<>>, error |-> s.error]
         ELSE IF Len(allowed) > 0 /\ ~isTargetAllowedByList(s.resolved, allowed, f)
           THEN [ok |-> FALSE, resolved |-> <<>>, error |-> "Access denied by allowedPaths policy"]
         ELSE [ok |-> TRUE, resolved |-> s.resolved, error |-> "none"]


\* ------------------------------------------------------------------------
\* Unified diff parser.  The diff text is held as the sequence of its
\* lines (patchStr.split('\n')).  A line is its text s together with hm,
\* the result of matching it against the hunk-header pattern
\*   /^@@ -(\d+)(?:,(\d+))? \+(\d+)(?:,(\d+))? @@/ :
\* <<>> when it does not match, else the four captured numbers, -1 standing
\* for a group that did not take part (undefined).
\* ------------------------------------------------------------------------
Undefined == -1

DigitChars == <<"0", "1", "2", "3", "4", "5", "6", "7", "8", "9">>

IsDigit(c) == \E d \in 1..10 : DigitChars[d] = c

DigitValue(c) == (CHOOSE d \in 1..10 : DigitChars[d] = c) - 1

RECURSIVE DigitsEnd(_, _)
\* \d+ from position i, greedy: the position after the last digit taken
DigitsEnd(t, i) == IF i <= Len(t) /\ IsDigit(t[i]) THEN DigitsEnd(t, i + 1) ELSE i

RECURSIVE ParseDecimal(_)
\* parseInt(digits, 10) of a run of digits
ParseDecimal(ds) ==
  IF ds = <<>> THEN 0
  ELSE 10 * ParseDecimal(SubSeq(ds, 1, Len(ds) - 1)) + DigitValue(ds[Len(ds)])

\* the text lit occurs in t at position i
LitAt(t, i, lit) == i + Len(lit) - 1 <= Len(t) /\ SubSeq(t, i, i + Len(lit) - 1) = lit

\* (\d+) at position i
MatchNum(t, i) ==
  LET j == DigitsEnd(t, i) IN
  [ok |-> j > i, n |-> ParseDecimal(SubSeq(t, i, j - 1)), next |-> j]

\* (?:,(\d+))? at position i
MatchOptCount(t, i) ==
  IF LitAt(t, i, <<",">>) /\ MatchNum(t, i + 1).ok
    THEN [n |-> MatchNum(t, i + 1).n, next |-> MatchNum(t, i + 1).next]
    ELSE [n |-> Undefined, next |-> i]

\* line.match(/^@@ -(\d+)(?:,(\d+))? \+(\d+)(?:,(\d+))? @@/)
MatchHunkHeader(t) ==
  IF ~LitAt(t, 1, <<"@", "@", " ", "-">>) THEN <<>>
  ELSE LET a == MatchNum(t, 5)
           b == MatchOptCount(t, a.next)
           c == MatchNum(t, b.next + 2)
           d == MatchOptCount(t, c.next)
       IN IF ~a.ok \/ ~LitAt(t, b.next, <<" ", "+">>) THEN <<>>
          ELSE IF ~c.ok \/ ~LitAt(t, d.next, <<" ", "@", "@">>) THEN <<>>
          ELSE <<a.n, b.n, c.n, d.n>>

Ln(text) == [s |-> text, hm |-> MatchHunkHeader(text)]

\* the decimal text of n, 0 <= n <= 99
Decimal(n) ==
  IF n < 10 THEN <<DigitChars[n + 1]>>
  ELSE <<DigitChars[(n \div 10) + 1], DigitChars[(n % 10) + 1]>>

\* the text of a range: "start" or "start,count"
RangeText(start, count) ==
  IF count = Undefined THEN Decimal(start) ELSE Decimal(start) \o <<",">> \o Decimal(count)

\* the line "@@ -os[,ol] +ns[,nl] @@"
HunkHeader(os, ol, ns, nl) ==
  Ln(<<"@", "@", " ", "-">> \o RangeText(os, ol) \o <<" ", "+">> \o RangeText(ns, nl)
       \o <<" ", "@", "@">>)

\* str.replace(/^[ab]\//, '')
StripAB(t) ==
  IF Len(t) >= 2 /\ t[1] \in {"a", "b"} /\ t[2] = "/" THEN Substring(t, 2) ELSE t

OldMarker == <<"-", "-", "-", " ">>
NewMarker == <<"+", "+", "+", " ">>

\* The parser's locals.  objs is the heap of FilePatch objects created so
\* far; current and the entries of patches are references into it (0 is
\* null), hunk is a reference <<object, hunk index>> (<<0, 0>> is null).
ParseInit == [objs |-> <<>>, patches |-> <<>>, current |-> 0, hunk |-> <<0, 0>>]

IsHunkContent(t) ==
  StartsWith(t, <<"+">>) \/ StartsWith(t, <<"-">>) \/ StartsWith(t, <<" ">>) \/ t = <<>>

\* HunkFromMatch with one test deciding both defaults
HunkFromMatchSharedDefault(hunkMatch) ==
  [oldStart |-> hunkMatch[1],
   oldLines |-> IF hunkMatch[2] # Undefined THEN hunkMatch[2] ELSE 1,
   newStart |-> hunkMatch[3],
   newLines |-> IF hunkMatch[2] # Undefined /\ hunkMatch[4] # Undefined THEN hunkMatch[4] ELSE 1,
   lines |-> <<>>]

\* the hunk object built from the match of a hunk header
HunkFromMatch(hunkMatch) ==
  [oldStart |-> hunkMatch[1],
   oldLines |-> IF hunkMatch[2] # Undefined THEN hunkMatch[2] ELSE 1,
   newStart |-> hunkMatch[3],
   newLines |-> IF hunkMatch[4] # Undefined THEN hunkMatch[4] ELSE 1,
   lines |-> <<>>]

\* one iteration of the for loop of parseUnifiedDiff
ParseLine(st, line) ==
  IF StartsWith(line.s, OldMarker) THEN
    [st EXCEPT !.objs = Append(@, [oldFile |-> Trim(StripAB(Substring(line.s, 4))),
                                   hasNew |-> FALSE, newFile |-> <<>>, hunks |-> <<>>]),
               !.current = Len(st.objs) + 1]
  ELSE IF StartsWith(line.s, NewMarker) /\ st.current # 0 THEN
    [st EXCEPT !.objs[st.current].newFile = Trim(StripAB(Substring(line.s, 4))),
               !.objs[st.current].hasNew = TRUE,
               !.patches = Append(@, st.current)]
  ELSE IF line.hm # <<>> /\ st.current # 0 THEN
    [st EXCEPT !.objs[st.current].hunks = Append(@, HunkFromMatch(line.hm)),
               !.hunk = <<st.current, Len(st.objs[st.current].hunks) + 1>>]
  ELSE IF st.hunk # <<0, 0>> /\ IsHunkContent(line.s) THEN
    [st EXCEPT !.objs[st.hunk[1]].hunks[st.hunk[2]].lines = Append(@, line.s)]
  ELSE st

RECURSIVE ParseLoop(_, _)
ParseLoop(st, lines) ==
  IF lines = <<>> THEN st ELSE ParseLoop(ParseLine(st, Head(lines)), Tail(lines))

\* the returned array: each reference replaced by the object it denotes
parseUnifiedDiff(lines) ==
  LET st == ParseLoop(ParseInit, lines) IN
  [i \in 1..Len(st.patches) |-> st.objs[st.patches[i]]]

\* ------------------------------------------------------------------------
\* Hunk applier
\* ------------------------------------------------------------------------
Min(a, b) == IF a < b THEN a ELSE b
Max(a, b) == IF a > b THEN a ELSE b

\* Splice that deletes nothing
SpliceInsertOnly(arr, start, deleteCount, items) ==
  LET len == Len(arr)
      from == IF start < 0 THEN Max(len + start, 0) ELSE Min(start, len)
  IN SubSeq(arr, 1, from) \o items \o SubSeq(arr, from + 1, len)

\* Array.prototype.splice(start, deleteCount, ...items)
Splice(arr, start, deleteCount, items) ==
  LET len == Len(arr)
      from == IF start < 0 THEN Max(len + start, 0) ELSE Min(start, len)
      dc == Min(Max(deleteCount, 0), len - from)
  IN SubSeq(arr, 1, from) \o items \o SubSeq(arr, from + dc + 1, len)

IsAddition(l) == StartsWith(l, <<"+">>)
IsRemoval(l) == StartsWith(l, <<"-">>)

Strip1(l) == Substring(l, 1)

Additions(hunk) ==
  LET sel == SelectSeq(hunk.lines, IsAddition) IN [i \in 1..Len(sel) |-> Strip1(sel[i])]

Removals(hunk) ==
  LET sel == SelectSeq(hunk.lines, IsRemoval) IN [i \in 1..Len(sel) |-> Strip1(sel[i])]

\* the text of lines.join('\n'), as its own split('\n')
JoinLines(ls) == IF ls = <<>> THEN << <<>> >> ELSE ls

\* StartIndex without the accumulated offset
StartIndexNoOffset(acc, hunk) == hunk.oldStart - 1

\* const startIndex = hunk.oldStart - 1 + offset
StartIndex(acc, hunk) == hunk.oldStart - 1 + acc.offset

\* the locals of applyUnifiedPatch before its loop
ApplyInit(originalLines) ==
  [resultLines |-> originalLines, offset |-> 0, linesAdded |-> 0, linesRemoved |-> 0]

\* one iteration of the loop over patchData.hunks
ApplyHunk(acc, hunk) ==
  LET startIndex == StartIndex(acc, hunk)
      removals == Removals(hunk)
      additions == Additions(hunk)
  IN [resultLines |-> Splice(acc.resultLines, startIndex, Len(removals), additions),
      offset |-> acc.offset + Len(additions) - Len(removals),
      linesAdded |-> acc.linesAdded + Len(additions),
      linesRemoved |-> acc.linesRemoved + Len(removals)]

RECURSIVE ApplyHunks(_, _)
ApplyHunks(acc, hunks) ==
  IF hunks = <<>> THEN acc ELSE ApplyHunks(ApplyHunk(acc, Head(hunks)), Tail(hunks))

applyUnifiedPatch(originalLines, patchData) ==
  LET r == ApplyHunks(ApplyInit(originalLines), patchData.hunks)
  IN [content |-> JoinLines(r.resultLines),
      linesAdded |-> r.linesAdded, linesRemoved |-> r.linesRemoved]

RECURSIVE AllAdditions(_)
\* hunks.flatMap(h => h.lines.filter(l => l.startsWith('+')).map(l => l.substring(1)))
AllAdditions(hunks) ==
  IF hunks = <<>> THEN <<>> ELSE Additions(Head(hunks)) \o AllAdditions(Tail(hunks))

\* new-file branch of handleGitDiff: every '+' line of every hunk, joined
NewFileContent(patchData) == JoinLines(AllAdditions(patchData.hunks))

RECURSIVE CountAdded(_)
\* dry-run branch of handleGitDiff: the '+' lines of all hunks
CountAdded(hunks) ==
  IF hunks = <<>> THEN 0
  ELSE Len(SelectSeq(Head(hunks).lines, IsAddition)) + CountAdded(Tail(hunks))

RECURSIVE CountRemoved(_)
\* dry-run branch of handleGitDiff: the '-' lines of all hunks
CountRemoved(hunks) ==
  IF hunks = <<>> THEN 0
  ELSE Len(SelectSeq(Head(hunks).lines, IsRemoval)) + CountRemoved(Tail(hunks))


\* ------------------------------------------------------------------------
\* JSON documents.  An object is a function from its keys to values, an
\* array is its element sequence s (Hole marks an index never assigned)
\* with its non-index properties x, a number is Prim(n), null is Null.
\* Undef is the JavaScript value undefined.
\* ------------------------------------------------------------------------
Prim(n) == [t |-> "prim", v |-> n]
Null == [t |-> "null"]
Hole == [t |-> "hole"]
Undef == [t |-> "undef"]
NoProps == [k \in {} |-> Undef]
Obj(f) == [t |-> "obj", f |-> f]
Arr(s) == [t |-> "arr", s |-> s, x |-> NoProps]
EmptyObj == Obj(NoProps)

IsContainer(v) == v.t \in {"obj", "arr"}

\* truthiness, as tested by `if (!current) return`
Truthy(v) ==
  CASE v.t = "prim" -> v.v # 0
    [] v.t \in {"null", "hole", "undef"} -> FALSE
    [] OTHER -> TRUE

\* canonical array-index keys
IsIndex(key) == key \in {"0", "1", "2", "3"}
ToIndex(key) == CASE key = "0" -> 0 [] key = "1" -> 1 [] key = "2" -> 2 [] key = "3" -> 3

\* parseInt(key, 10): nan is TRUE when no leading integer is found
parseInt(key) ==
  CASE IsIndex(key) -> [nan |-> FALSE, n |-> ToIndex(key)]
    [] key = "-1" -> [nan |-> FALSE, n |-> -1]
    [] OTHER -> [nan |-> TRUE, n |-> 0]

\* ToIntegerOrInfinity, applied by splice to its start argument
ToInteger(pi) == IF pi.nan THEN 0 ELSE pi.n

\* `key in current` for an object or array
HasKey(cur, key) ==
  IF cur.t = "obj" THEN key \in DOMAIN cur.f
  ELSE \/ IsIndex(key) /\ ToIndex(key) < Len(cur.s) /\ cur.s[ToIndex(key) + 1] # Hole
       \/ key \in DOMAIN cur.x

\* current[key]
Get(cur, key) ==
  CASE cur.t = "obj" -> IF key \in DOMAIN cur.f THEN cur.f[key] ELSE Undef
    [] cur.t = "arr" ->
         IF IsIndex(key)
           THEN IF ToIndex(key) < Len(cur.s) /\ cur.s[ToIndex(key) + 1] # Hole
                  THEN cur.s[ToIndex(key) + 1] ELSE Undef
         ELSE IF key \in DOMAIN cur.x THEN cur.x[key] ELSE Undef
    [] OTHER -> Undef

SetKey(f, key, v) == [k \in DOMAIN f \cup {key} |-> IF k = key THEN v ELSE f[k]]

\* current[key] = v for an object or array
Assign(cur, key, v) ==
  IF cur.t = "obj" THEN [cur EXCEPT !.f = SetKey(cur.f, key, v)]
  ELSE IF IsIndex(key)
    THEN LET i == ToIndex(key) IN
         IF i < Len(cur.s) THEN [cur EXCEPT !.s[i + 1] = v]
         ELSE [cur EXCEPT !.s = cur.s \o [j \in 1..(i - Len(cur.s)) |-> Hole] \o <<v>>]
  ELSE [cur EXCEPT !.x = SetKey(cur.x, key, v)]

Thrown == [ok |-> FALSE, v |-> Undef]
Done(v) == [ok |-> TRUE, v |-> v]

\* the property name a missing last segment turns into
LastKey(segments) == IF segments = <<>> THEN "undefined" ELSE segments[Len(segments)]

RECURSIVE setNestedValue(_, _, _)
\* The value of obj after setNestedValue(obj, segments, value), or Thrown:
\* `key in current` and, in strict mode, an assignment to a property of a
\* number or of null raise a TypeError.
setNestedValue(cur, segments, value) ==
  IF ~IsContainer(cur) THEN Thrown
  ELSE IF Len(segments) <= 1 THEN
    IF LastKey(segments) = "-" /\ cur.t = "arr"
      THEN Done([cur EXCEPT !.s = Append(cur.s, value)])
      ELSE Done(Assign(cur, LastKey(segments), value))
  ELSE
    LET key == Head(segments)
        cur1 == IF ~HasKey(cur, key) THEN Assign(cur, key, EmptyObj) ELSE cur
        r == setNestedValue(Get(cur1, key), Tail(segments), value)
    IN IF r.ok THEN Done(Assign(cur1, key, r.v)) ELSE Thrown

DelKey(f, key) == [k \in DOMAIN f \ {key} |-> f[k]]

\* RemoveLeaf with `delete current[index]` in place of splice: the slot is
\* emptied, the array keeps its length
RemoveLeafDelete(cur, lastKey) ==
  IF cur.t = "arr"
    THEN IF IsIndex(lastKey) /\ ToIndex(lastKey) < Len(cur.s)
           THEN [cur EXCEPT !.s[ToIndex(lastKey) + 1] = Hole]
           ELSE cur
  ELSE IF cur.t = "obj" THEN [cur EXCEPT !.f = DelKey(cur.f, lastKey)]
  ELSE cur

\* the last statement of removeNestedValue: splice on an array, delete
\* on anything else
RemoveLeaf(cur, lastKey) ==
  IF cur.t = "arr"
    THEN [cur EXCEPT !.s = Splice(cur.s, ToInteger(parseInt(lastKey)), 1, <<>>)]
  ELSE IF cur.t = "obj" THEN [cur EXCEPT !.f = DelKey(cur.f, lastKey)]
  ELSE cur

RECURSIVE removeNestedValue(_, _)
\* the value of obj after removeNestedValue(obj, segments)
removeNestedValue(cur, segments) ==
  IF Len(segments) <= 1 THEN RemoveLeaf(cur, LastKey(segments))
  ELSE
    LET key == Head(segments)
        child == Get(cur, key)
    IN IF ~Truthy(child) THEN cur
       ELSE Assign(cur, key, removeNestedValue(child, Tail(segments)))

\* jsonPath.split('/').filter(Boolean); a path is held as its split('/')
Segments(jsonPath) == SelectSeq(jsonPath, LAMBDA g : g # "")

\* IsSetOp accepting add only
IsSetOpAddOnly(opType) == opType = "add"

\* opType === 'add' || opType === 'replace'
IsSetOp(opType) == opType \in {"add", "replace"}

RECURSIVE ApplyOps(_, _)
ApplyOps(data, operations) ==
  IF operations = <<>> THEN Done(data)
  ELSE LET op == Head(operations)
           segments == Segments(op.path)
       IN IF IsSetOp(op.op) THEN
            LET r == setNestedValue(data, segments, op.value) IN
            IF r.ok THEN ApplyOps(r.v, Tail(operations)) ELSE Thrown
          ELSE IF op.op = "remove" THEN
            ApplyOps(removeNestedValue(data, segments), Tail(operations))
          ELSE Thrown

RECURSIVE Stringify(_)
\* what JSON.parse(JSON.stringify(v, null, 2)) holds: array holes become
\* null and non-index properties of arrays are not emitted
Stringify(v) ==
  CASE v.t = "obj" -> Obj([k \in {j \in DOMAIN v.f : v.f[j] # Undef} |-> Stringify(v.f[k])])
    [] v.t = "arr" -> Arr([i \in 1..Len(v.s) |-> Stringify(v.s[i])])
    [] v.t \in {"hole", "undef"} -> Null
    [] OTHER -> v

RECURSIVE AppliedPrefix(_, _)
\* the document after the operations that precede the first one that throws
AppliedPrefix(data, operations) ==
  IF operations = <<>> THEN data
  ELSE IF ~ApplyOps(data, <<Head(operations)>>).ok THEN data
  ELSE AppliedPrefix(ApplyOps(data, <<Head(operations)>>).v, Tail(operations))

\* applyJsonPatch returning the document reached so far when an operation
\* throws, instead of propagating the error
applyJsonPatchKeepPrefix(content, operations) ==
  IF content.k # "json" THEN Thrown
  ELSE Done(JsonFile(Stringify(AppliedPrefix(content.doc, operations)), "pretty"))

\* applyJsonPatch(content, operations): the new file content, or Thrown
\* when the content is not JSON or an operation throws
applyJsonPatch(content, operations) ==
  IF content.k # "json" THEN Thrown
  ELSE LET r == ApplyOps(content.doc, operations) IN
       IF r.ok THEN Done(JsonFile(Stringify(r.v), "pretty")) ELSE Thrown


\* ------------------------------------------------------------------------
\* Inputs of the handler model
\* ------------------------------------------------------------------------
\* paths named by requests and configurations (relative to /w, or absolute)
PathA == <<"a">>
PathDA == <<"d", "/", "a">>
PathDx == <<"d", "a">>
PathD == <<"d">>
PathUp == <<".", ".", "/", "w", "x">>
PathAbsIn == <<"/", "w", "/", "a">>
PathAbsOut == <<"/", "w", "x">>
PathEmpty == <<>>

\* canonical paths of the modelled filesystem
FsA == <<"/", "w", "/", "a">>
FsD == <<"/", "w", "/", "d">>
FsDA == <<"/", "w", "/", "d", "/", "a">>
FsDx == <<"/", "w", "/", "d", "a">>
FsOut == <<"/", "w", "x">>
FsPaths == {FsA, FsD, FsDA, FsDx, FsOut}

ReqPaths == {PathA, PathDA, PathDx, PathUp, PathAbsIn, PathAbsOut, PathEmpty}

LineP == <<"p">>
LineQ == <<"q">>
LineR == <<"r">>

\* hunk bodies carried by the FilePatches of a request
BodyNone == <<>>
BodyReplace == <<HunkHeader(2, Undefined, 2, Undefined), Ln(<<"-", "q">>), Ln(<<"+", "n">>)>>
Bodies == {BodyNone, BodyReplace}

\* the text of one file's section: "--- a/<path>", "+++ b/<path>", body
FileSection(path, body) ==
  LET old == IF isAbsolute(path) \/ path = <<>> THEN path ELSE <<"a", "/">> \o path
      new == IF isAbsolute(path) \/ path = <<>> THEN path ELSE <<"b", "/">> \o path
  IN <<Ln(OldMarker \o old), Ln(NewMarker \o new)>> \o body

FileSections == {FileSection(p, b) : p \in ReqPaths, b \in Bodies}

RECURSIVE SeqsUpTo(_, _)
\* the sequences over S of length 1..n
SeqsUpTo(S, n) ==
  IF n = 0 THEN {}
  ELSE LET shorter == SeqsUpTo(S, n - 1) IN
       {<<x>> : x \in S} \cup shorter \cup {Append(t, x) : t \in shorter, x \in S}

\* the empty request text "" and a text without any file header
EmptyText == <<Ln(<<>>)>>
HunkOnlyText == BodyReplace

RECURSIVE Concat(_)
Concat(ss) == IF ss = <<>> THEN <<>> ELSE Head(ss) \o Concat(Tail(ss))

\* "--- a/a" followed by a hunk, without any "+++" line, and "+++ b/a"
\* followed by a hunk, without any "---" line
OldOnlyText == <<Ln(OldMarker \o <<"a", "/">> \o PathA)>> \o BodyReplace
NewOnlyText == <<Ln(NewMarker \o <<"b", "/">> \o PathA)>> \o BodyReplace

DiffTexts ==
  {EmptyText, HunkOnlyText, OldOnlyText, NewOnlyText}
    \cup {Concat(ss) : ss \in SeqsUpTo(FileSections, MaxPatches)}

TextPatch(lines) == [kind |-> "text", lines |-> lines, ops |-> <<>>]
ArrayPatch(ops) == [kind |-> "array", lines |-> <<>>, ops |-> ops]

\* JSON-patch operations; a path is held as its split('/'), "" is a
\* missing or empty field
JPathEmpty == <<"">>
JPathK == <<"", "k">>
JPathKJ == <<"", "k", "j">>
JsonOp(kind, jsonPath) == [op |-> kind, path |-> jsonPath, value |-> Prim(7)]
JsonOps ==
  { JsonOp("add", JPathK), JsonOp("add", JPathKJ), JsonOp("add", JPathEmpty),
    JsonOp("remove", JPathK), JsonOp("replace", JPathK), JsonOp("move", JPathK),
    JsonOp("", JPathK) }

OpSeqs == {<<>>} \cup SeqsUpTo(JsonOps, MaxOps)

DocK == Obj([k \in {"k"} |-> Prim(1)])

GitRequests ==
  [format : {"git-diff"}, confirm : BOOLEAN, patch : {TextPatch(t) : t \in DiffTexts},
   targetFile : {<<>>}]

JsonRequests ==
  [format : {"json-patch"}, confirm : BOOLEAN, patch : {ArrayPatch(o) : o \in OpSeqs},
   targetFile : {PathA, PathAbsOut, PathEmpty}]

\* the value of params.format when the request has no format field
NoFormat == "undefined"

\* requests naming a format the skill does not know, or no format
OtherRequests ==
  [format : {"yaml", NoFormat}, confirm : BOOLEAN,
   patch : {TextPatch(FileSection(PathA, BodyReplace))}, targetFile : {<<>>, PathA}]

Requests == GitRequests \cup JsonRequests \cup OtherRequests

Config(src, allowedPaths, ext) ==
  [source |-> src, allowedPaths |-> allowedPaths, externalAllowedPaths |-> ext,
   throws |-> FALSE]

\* a configuration file whose reading throws
ConfigThrows(src, allowedPaths, ext) ==
  [Config(src, allowedPaths, ext) EXCEPT !.throws = TRUE]

Configs ==
  { Config("none", <<>>, <<>>),
    Config("agent", <<PathA>>, <<>>),
    Config("agent", <<PathD>>, <<>>),
    Config("agent", <<PathAbsOut>>, <<>>),
    Config("global", <<PathAbsOut>>, <<>>),
    ConfigThrows("agent", <<PathD>>, <<>>) }

\* initial filesystems: text files for diff requests, JSON documents (or a
\* text that is not JSON) for JSON-patch requests
TextWorlds ==
  { [p \in FsPaths |->
       CASE p = FsA -> a [] p = FsD -> d [] p = FsOut -> TextFile(<<LineP>>) [] OTHER -> Absent]
    : a \in {Absent, TextFile(<<LineP, LineQ, LineR>>)}, d \in {Absent, Dir} }

JsonWorlds ==
  { [p \in FsPaths |->
       CASE p = FsA -> a [] p = FsOut -> JsonFile(DocK, "orig") [] OTHER -> Absent]
    : a \in {Absent, JsonFile(DocK, "orig"), TextFile(<<LineP>>)} }

Worlds(format) == IF format = "json-patch" THEN JsonWorlds ELSE TextWorlds

\* ------------------------------------------------------------------------
\* State of one invocation
\* ------------------------------------------------------------------------
VARIABLES
  fs,           \* the filesystem
  fs0,          \* the filesystem when the request arrived
  cfg,          \* the allow-list configuration in effect
  req,          \* params of the applyPatch request
  pc,           \* position of the handler
  patches,      \* handleGitDiff: the parsed FilePatches
  idx,          \* handleGitDiff: index of the FilePatch being processed
  resolved,     \* the resolved target path
  summary,      \* handleGitDiff: the summary object
  fileResults,  \* handleGitDiff: the files array
  original,     \* handleJsonPatch: originalContent
  responses,    \* envelopes written to stdout
  writes,       \* paths handed to fs.writeFileSync, in order
  preview,      \* the summary a preceding dry run of the same request reported
  pin,          \* input of the pure function under check
  pout,         \* results of the pure function under check
  main,         \* the process: stdin, inputData, the 5-second timer
  invs,         \* concurrent invocations sharing the filesystem
  exec          \* shell-skill handleExec: the child, its timers and flags

vars == <<fs, fs0, cfg, req, pc, patches, idx, resolved, summary, fileResults,
          original, responses, writes, preview, pin, pout, main, invs, exec>>

\* variables the handlers of one invocation do not touch
aux == <<preview, pin, pout, main, invs, exec>>

NoInvocations == <<>>

NoExec == [child |-> "none"]

\* the text of a complete JSON request, and the process once stdin has
\* delivered it and ended
RequestText == <<"{", "}">>

NoInput == [action |-> "none"]

MainDone ==
  [stdin |-> <<>>, ended |-> TRUE, inputData |-> RequestText, timer |-> "armed",
   input |-> NoInput]

NoSummary ==
  [filesChanged |-> <<>>, totalHunks |-> 0, totalLinesAdded |-> 0, totalLinesRemoved |-> 0]

NoPreview == [done |-> FALSE, summary |-> NoSummary]

Init ==
  /\ cfg \in Configs
  /\ req \in Requests
  /\ fs \in Worlds(req.format)
  /\ fs0 = fs
  /\ pc = "Received"
  /\ patches = <<>>
  /\ idx = 0
  /\ resolved = <<>>
  /\ summary = NoSummary
  /\ fileResults = <<>>
  /\ original = Absent
  /\ responses = <<>>
  /\ writes = <<>>
  /\ preview = NoPreview
  /\ pin = <<>>
  /\ pout = <<>>
  /\ main = MainDone
  /\ invs = NoInvocations
  /\ exec = NoExec

\* respond(success, output, error): one envelope on stdout, then exit
respond(success, output, error) ==
  /\ responses' = Append(responses, [success |-> success, output |-> output, error |-> error])
  /\ pc' = "Responded"

NoOutput == [applied |-> FALSE]


\* ------------------------------------------------------------------------
\* handleApplyPatch and handleGitDiff
\* ------------------------------------------------------------------------
\* !patch: the patch param is absent or the empty string
Missing(patch) == patch.kind = "text" /\ patch.lines = EmptyText

\* FormatOf falling back to 'git-diff' for every format it does not know
FormatOfFallback(params) ==
  IF params.format \in {"git-diff", "json-patch"} THEN params.format ELSE "git-diff"

\* const { format = 'git-diff' } = params
FormatOf(params) == IF params.format = NoFormat THEN "git-diff" ELSE params.format

\* NoPatches never holding
NoPatchesUnchecked(parsed) == FALSE

\* patches.length === 0
NoPatches(parsed) == Len(parsed) = 0

\* handleApplyPatch, and handleGitDiff up to its loop (which has no
\* iteration when patches is empty)
Dispatch ==
  /\ pc = "Received"
  /\ IF Missing(req.patch) THEN
       /\ respond(FALSE, NoOutput, "Missing required param: patch")
       /\ UNCHANGED <<patches, idx, summary>>
     ELSE IF FormatOf(req) = "git-diff" THEN
       LET parsed == parseUnifiedDiff(req.patch.lines) IN
       IF NoPatches(parsed) THEN
         /\ respond(FALSE, NoOutput, "No patches found in the provided diff")
         /\ UNCHANGED <<patches, idx, summary>>
       ELSE
         /\ patches' = parsed
         /\ idx' = 1
         /\ summary' = NoSummary
         /\ pc' = IF Len(parsed) = 0 THEN "Finish" ELSE "Resolve"
         /\ UNCHANGED responses
     ELSE IF FormatOf(req) = "json-patch" THEN
       /\ pc' = "JResolve"
       /\ UNCHANGED <<patches, idx, summary, responses>>
     ELSE
       /\ respond(FALSE, NoOutput, "Unsupported patch format")
       /\ UNCHANGED <<patches, idx, summary>>
  /\ UNCHANGED <<fs, fs0, cfg, req, resolved, fileResults, original, writes>>
  /\ UNCHANGED aux

\* patchData.newFile || patchData.oldFile
FilePathOf(patchData) ==
  IF patchData.newFile # <<>> THEN patchData.newFile ELSE patchData.oldFile

\* end of one iteration of the loop over patches
Advance ==
  /\ idx' = idx + 1
  /\ pc' = IF idx < Len(patches) THEN "Resolve" ELSE "Finish"

\* loop body of handleGitDiff, first half: load the allow-list, resolve
\* and check the path of patches[idx]
ResolvePath ==
  /\ pc = "Resolve"
  /\ LET patchData == patches[idx]
         filePath == FilePathOf(patchData)
     IN IF filePath = <<>> THEN
          /\ Advance
          /\ UNCHANGED <<resolved, summary, responses>>
        ELSE
          LET r == ResolveTarget(filePath, cfg, fs) IN
          IF ~r.ok THEN
            /\ respond(FALSE, NoOutput, r.error)
            /\ UNCHANGED <<resolved, summary, idx>>
          ELSE
            /\ resolved' = r.resolved
            /\ summary' = [summary EXCEPT !.filesChanged = Append(@, filePath),
                                          !.totalHunks = @ + Len(patchData.hunks)]
            /\ pc' = "Apply"
            /\ UNCHANGED <<idx, responses>>
  /\ UNCHANGED <<fs, fs0, cfg, req, patches, fileResults, original, writes>>
  /\ UNCHANGED aux

FileResult(file, status, added, removed) ==
  [file |-> file, status |-> status, linesAdded |-> added, linesRemoved |-> removed]

\* loop body of handleGitDiff, second half: apply patches[idx] to the
\* resolved file (confirm) or count its lines (dry run).  An exception of
\* the fs calls rejects the handler's promise; main's catch responds.
ApplyFile ==
  /\ pc = "Apply"
  /\ LET patchData == patches[idx]
         filePath == FilePathOf(patchData)
     IN
     IF req.confirm THEN
       IF ~existsSync(fs, resolved) THEN
         LET newContent == NewFileContent(patchData)
             f1 == ensureDirSync(fs, dirname(resolved))
             linesAdded == Len(newContent)
         IN IF CanWrite(f1, resolved) THEN
              /\ fs' = writeFileSync(f1, resolved, TextFile(newContent))
              /\ writes' = Append(writes, resolved)
              /\ summary' = [summary EXCEPT !.totalLinesAdded = @ + linesAdded]
              /\ fileResults' = Append(fileResults, FileResult(filePath, "created", linesAdded, 0))
              /\ Advance
              /\ UNCHANGED responses
            ELSE
              /\ fs' = f1
              /\ respond(FALSE, NoOutput, "applyPatch failed")
              /\ UNCHANGED <<writes, summary, fileResults, idx>>
       ELSE IF fs[resolved].k # "text" \/ ~CanWrite(fs, resolved) THEN
         /\ respond(FALSE, NoOutput, "applyPatch failed")
         /\ UNCHANGED <<fs, writes, summary, fileResults, idx>>
       ELSE
         LET result == applyUnifiedPatch(fs[resolved].lines, patchData) IN
         /\ fs' = writeFileSync(fs, resolved, TextFile(result.content))
         /\ writes' = Append(writes, resolved)
         /\ summary' = [summary EXCEPT !.totalLinesAdded = @ + result.linesAdded,
                                       !.totalLinesRemoved = @ + result.linesRemoved]
         /\ fileResults' = Append(fileResults,
                FileResult(filePath, "modified", result.linesAdded, result.linesRemoved))
         /\ Advance
         /\ UNCHANGED responses
     ELSE
       /\ summary' = [summary EXCEPT
             !.totalLinesAdded = @ + CountAdded(patchData.hunks),
             !.totalLinesRemoved = @ + CountRemoved(patchData.hunks)]
       /\ fileResults' = Append(fileResults, FileResult(filePath, "dry-run", Undefined, Undefined))
       /\ Advance
       /\ UNCHANGED <<fs, writes, responses>>
  /\ UNCHANGED <<fs0, cfg, req, patches, resolved, original>>
  /\ UNCHANGED aux

\* the respond(true, ...) that ends handleGitDiff
Finish ==
  /\ pc = "Finish"
  /\ respond(TRUE, [applied |-> req.confirm, summary |-> summary, files |-> fileResults], "none")
  /\ UNCHANGED <<fs, fs0, cfg, req, patches, idx, resolved, summary, fileResults,
                 original, writes>>
  /\ UNCHANGED aux

\* ------------------------------------------------------------------------
\* handleJsonPatch
\* ------------------------------------------------------------------------
\* target checks: targetFile present, path resolved and allowed, file exists
JResolve ==
  /\ pc = "JResolve"
  /\ IF req.targetFile = <<>> THEN
       /\ respond(FALSE, NoOutput, "json-patch format requires param: targetFile")
       /\ UNCHANGED resolved
     ELSE
       LET r == ResolveTarget(req.targetFile, cfg, fs) IN
       IF ~r.ok THEN
         /\ respond(FALSE, NoOutput, r.error)
         /\ UNCHANGED resolved
       ELSE IF ~existsSync(fs, r.resolved) THEN
         /\ respond(FALSE, NoOutput, "Target file not found")
         /\ UNCHANGED resolved
       ELSE
         /\ resolved' = r.resolved
         /\ pc' = "JValidate"
         /\ UNCHANGED responses
  /\ UNCHANGED <<fs, fs0, cfg, req, patches, idx, summary, fileResults, original, writes>>
  /\ UNCHANGED aux

\* the check of one operation: "ok" or the error responded
CheckOp(op) ==
  IF op.op = "" \/ op.path = JPathEmpty THEN "Invalid operation"
  ELSE IF op.op \notin {"add", "remove", "replace"} THEN "Unsupported operation type"
  ELSE "ok"

\* ValidateOps checking the first operation only
ValidateFirstOnly(operations) ==
  IF operations = <<>> THEN "ok" ELSE CheckOp(Head(operations))

RECURSIVE ValidateOps(_)
\* the validation loop: the error of the first operation that fails
ValidateOps(operations) ==
  IF operations = <<>> THEN "ok"
  ELSE IF CheckOp(Head(operations)) # "ok" THEN CheckOp(Head(operations))
  ELSE ValidateOps(Tail(operations))

\* read the target and validate every operation
JValidate ==
  /\ pc = "JValidate"
  /\ IF isDirectory(fs, resolved) THEN
       /\ respond(FALSE, NoOutput, "applyPatch failed")
       /\ UNCHANGED original
     ELSE IF ValidateOps(req.patch.ops) # "ok" THEN
       /\ respond(FALSE, NoOutput, ValidateOps(req.patch.ops))
       /\ original' = fs[resolved]
     ELSE
       /\ original' = fs[resolved]
       /\ pc' = "JApply"
       /\ UNCHANGED responses
  /\ UNCHANGED <<fs, fs0, cfg, req, patches, idx, resolved, summary, fileResults, writes>>
  /\ UNCHANGED aux

\* JApply with the write not guarded by confirm
JApplyWritesInPreview ==
  /\ pc = "JApply"
  /\ LET r == applyJsonPatch(original, req.patch.ops) IN
     IF ~r.ok THEN
       /\ respond(FALSE, NoOutput, "Failed to apply JSON patch")
       /\ UNCHANGED <<fs, writes>>
     ELSE
       /\ fs' = writeFileSync(fs, resolved, r.v)
       /\ writes' = Append(writes, resolved)
       /\ respond(TRUE, [applied |-> req.confirm, operationCount |-> Len(req.patch.ops),
                         preview |-> IF req.confirm THEN Undef ELSE r.v], "none")
  /\ UNCHANGED <<fs0, cfg, req, patches, idx, resolved, summary, fileResults, original>>
  /\ UNCHANGED aux

\* apply the operations, write in confirm mode, respond
JApply ==
  /\ pc = "JApply"
  /\ LET r == applyJsonPatch(original, req.patch.ops) IN
     IF ~r.ok THEN
       /\ respond(FALSE, NoOutput, "Failed to apply JSON patch")
       /\ UNCHANGED <<fs, writes>>
     ELSE IF req.confirm THEN
       IF CanWrite(fs, resolved) THEN
         /\ fs' = writeFileSync(fs, resolved, r.v)
         /\ writes' = Append(writes, resolved)
         /\ respond(TRUE, [applied |-> TRUE, operationCount |-> Len(req.patch.ops),
                           preview |-> Undef], "none")
       ELSE
         /\ respond(FALSE, NoOutput, "Failed to apply JSON patch")
         /\ UNCHANGED <<fs, writes>>
     ELSE
       /\ respond(TRUE, [applied |-> FALSE, operationCount |-> Len(req.patch.ops),
                         preview |-> r.v], "none")
       /\ UNCHANGED <<fs, writes>>
  /\ UNCHANGED <<fs0, cfg, req, patches, idx, resolved, summary, fileResults, original>>
  /\ UNCHANGED aux

Next == Dispatch \/ ResolvePath \/ ApplyFile \/ Finish \/ JResolve \/ JValidate \/ JApply

Spec == Init /\ [][Next]_vars


\* ------------------------------------------------------------------------
\* A dry run followed by the same request with confirm = true, as in the
\* README's "Dry run" / "Apply" pair: a second invocation on the
\* filesystem the first one left.
\* ------------------------------------------------------------------------
Rerun ==
  /\ pc = "Responded"
  /\ req.format = "git-diff"
  /\ ~req.confirm
  /\ ~preview.done
  /\ responses[1].success
  /\ preview' = [done |-> TRUE, summary |-> summary]
  /\ req' = [req EXCEPT !.confirm = TRUE]
  /\ pc' = "Received"
  /\ patches' = <<>>
  /\ idx' = 0
  /\ resolved' = <<>>
  /\ summary' = NoSummary
  /\ fileResults' = <<>>
  /\ responses' = <<>>
  /\ UNCHANGED <<fs, fs0, cfg, original, writes, pin, pout, main, invs, exec>>

NextRerun == Next \/ Rerun

SpecRerun == Init /\ [][NextRerun]_vars

\* ------------------------------------------------------------------------
\* The process: stdin delivers the request text in chunks and ends, the
\* 5-second timer fires once, the 'end' handler parses the text and runs
\* the action.  The text of a request is RequestText; main.input is the
\* value it denotes.  The handlers contain no await: the timer callback
\* runs only while the process waits for stdin.
\* ------------------------------------------------------------------------
\* what stdin delivers before it ends: nothing, white space, a truncated
\* text, the request text in two chunks, in one, and after white space
Streams ==
  { <<>>, << <<" ">> >>, << <<"{">> >>, << <<"{">>, <<"}">> >>, <<RequestText>>,
    << <<" ">>, RequestText >> }

MainDiffs ==
  { FileSection(PathA, BodyNone), FileSection(PathUp, BodyNone), HunkOnlyText, EmptyText }

MainOps ==
  { <<JsonOp("add", JPathK)>>, <<JsonOp("add", JPathK), JsonOp("add", JPathKJ)>>,
    <<JsonOp("move", JPathK)>> }

MainRequests ==
  [format : {"git-diff", "yaml"}, confirm : BOOLEAN,
   patch : {TextPatch(t) : t \in MainDiffs}, targetFile : {<<>>}]
    \cup [format : {"json-patch"}, confirm : BOOLEAN,
          patch : {ArrayPatch(o) : o \in MainOps}, targetFile : {PathA, PathEmpty}]

IdleRequest ==
  [format |-> "none", confirm |-> FALSE, patch |-> TextPatch(EmptyText), targetFile |-> <<>>]

MainInputs ==
  [action : {"applyPatch"}, params : MainRequests]
    \cup [action : {"openFile", "unknown"}, params : {IdleRequest}]

InitMain ==
  /\ cfg = Config("none", <<>>, <<>>)
  /\ main \in [stdin : Streams, ended : {FALSE}, inputData : {<<>>}, timer : {"armed"},
               input : MainInputs]
  /\ fs \in Worlds(main.input.params.format)
  /\ fs0 = fs
  /\ req = IdleRequest
  /\ pc = "Waiting"
  /\ patches = <<>>
  /\ idx = 0
  /\ resolved = <<>>
  /\ summary = NoSummary
  /\ fileResults = <<>>
  /\ original = Absent
  /\ responses = <<>>
  /\ writes = <<>>
  /\ preview = NoPreview
  /\ pin = <<>>
  /\ pout = <<>>
  /\ invs = NoInvocations
  /\ exec = NoExec

\* JSON.parse(inputData.trim()) returns
JsonParses(text) == Trim(text) = RequestText

\* process.stdin.on('data'): inputData += chunk
StdinData ==
  /\ pc = "Waiting"
  /\ main.stdin # <<>>
  /\ main' = [main EXCEPT !.stdin = Tail(@), !.inputData = @ \o Head(main.stdin)]
  /\ UNCHANGED <<fs, fs0, cfg, req, pc, patches, idx, resolved, summary, fileResults,
                 original, responses, writes, preview, pin, pout, invs, exec>>

\* the 'end' handler without its catch: the exception ends the process
CatchParseErrorMissing == pc' = "Exited" /\ UNCHANGED responses

\* the catch of the 'end' handler
CatchParseError == respond(FALSE, NoOutput, "Failed to parse input")

\* process.stdin.on('end'), up to the call of the action's handler
StdinEnd ==
  /\ pc = "Waiting"
  /\ main.stdin = <<>>
  /\ ~main.ended
  /\ main' = [main EXCEPT !.ended = TRUE]
  /\ IF ~JsonParses(main.inputData) THEN
       /\ CatchParseError
       /\ UNCHANGED req
     ELSE IF main.input.action = "applyPatch" THEN
       /\ req' = main.input.params
       /\ pc' = "Received"
       /\ UNCHANGED responses
     ELSE IF main.input.action = "openFile" THEN
       /\ pc' = "OpenFile"
       /\ UNCHANGED <<req, responses>>
     ELSE
       /\ respond(FALSE, NoOutput, "Unknown action")
       /\ UNCHANGED req
  /\ UNCHANGED <<fs, fs0, cfg, patches, idx, resolved, summary, fileResults,
                 original, writes, preview, pin, pout, invs, exec>>

\* the setTimeout callback
Timeout ==
  /\ pc = "Waiting"
  /\ main.timer = "armed"
  /\ main' = [main EXCEPT !.timer = "fired"]
  /\ IF main.inputData = <<>>
       THEN respond(FALSE, NoOutput, "No input received (stdin timeout)")
       ELSE UNCHANGED <<pc, responses>>
  /\ UNCHANGED <<fs, fs0, cfg, req, patches, idx, resolved, summary, fileResults,
                 original, writes, preview, pin, pout, invs, exec>>

\* handleOpenFile: every path through it ends in one respond, with
\* success or with a failure
OpenFile ==
  /\ pc = "OpenFile"
  /\ \E ok \in BOOLEAN : respond(ok, NoOutput, IF ok THEN "none" ELSE "openFile failed")
  /\ UNCHANGED <<fs, fs0, cfg, req, patches, idx, resolved, summary, fileResults,
                 original, writes, preview, pin, pout, main, invs, exec>>

NextMain == StdinData \/ StdinEnd \/ Timeout \/ OpenFile \/ Next

SpecMain == InitMain /\ [][NextMain]_vars

\* once the 'end' handler has called an action's handler, the handler runs
\* to its respond
SpecMainLive == SpecMain /\ WF_vars(OpenFile \/ Next)

\* ------------------------------------------------------------------------
\* applyUnifiedPatch as a function: a content and a one-hunk FilePatch are
\* drawn, the patch is applied, then the patch with '+' and '-' swapped is
\* applied to the result.
\* ------------------------------------------------------------------------
ContentLines == {LineP, LineQ}

Contents == SeqsUpTo(ContentLines, MaxContent)

HunkLineTexts ==
  {<<" ", "p">>, <<" ", "q">>, <<"-", "p">>, <<"-", "q">>, <<"+", "n">>}

HunkOf(start, ls) ==
  [oldStart |-> start, oldLines |-> 1, newStart |-> start, newLines |-> 1, lines |-> ls]

HunkInputs ==
  [content : Contents,
   patchData : {[hunks |-> <<HunkOf(st, ls)>>] :
                  st \in 0..(MaxContent + 1), ls \in SeqsUpTo(HunkLineTexts, MaxHunkLines)}]

\* values of the handler variables in the function-level specifications
IdleHandler ==
  /\ fs = [p \in FsPaths |-> Absent]
  /\ fs0 = fs
  /\ cfg = Config("none", <<>>, <<>>)
  /\ req = [format |-> "none", confirm |-> FALSE, patch |-> TextPatch(EmptyText),
            targetFile |-> <<>>]
  /\ patches = <<>>
  /\ idx = 0
  /\ resolved = <<>>
  /\ summary = NoSummary
  /\ fileResults = <<>>
  /\ original = Absent
  /\ responses = <<>>
  /\ writes = <<>>
  /\ preview = NoPreview
  /\ main = MainDone
  /\ invs = NoInvocations
  /\ exec = NoExec

handlerVars == <<fs, fs0, cfg, req, patches, idx, resolved, summary, fileResults,
                 original, responses, writes, preview, main, invs, exec>>

InitHunk ==
  /\ IdleHandler
  /\ pin \in HunkInputs
  /\ pout = <<>>
  /\ pc = "HunkStart"

\* the line with its '+' or '-' tag swapped
SwapLine(l) ==
  IF IsAddition(l) THEN <<"-">> \o Strip1(l)
  ELSE IF IsRemoval(l) THEN <<"+">> \o Strip1(l)
  ELSE l

\* the inverse diff: additions and deletions swapped, same header position
InverseHunk(h) == [h EXCEPT !.lines = [i \in 1..Len(h.lines) |-> SwapLine(h.lines[i])]]
InversePatch(patchData) ==
  [hunks |-> [i \in 1..Len(patchData.hunks) |-> InverseHunk(patchData.hunks[i])]]

HunkApplyStep ==
  /\ pc = "HunkStart"
  /\ pout' = <<applyUnifiedPatch(pin.content, pin.patchData)>>
  /\ pc' = "HunkApplied"
  /\ UNCHANGED <<pin, handlerVars>>

HunkInvertStep ==
  /\ pc = "HunkApplied"
  /\ pout' = Append(pout, applyUnifiedPatch(pout[1].content, InversePatch(pin.patchData)))
  /\ pc' = "HunkInverted"
  /\ UNCHANGED <<pin, handlerVars>>

NextHunk == HunkApplyStep \/ HunkInvertStep

SpecHunk == InitHunk /\ [][NextHunk]_vars

\* ------------------------------------------------------------------------
\* handleGitDiff on one existing file: the file a holds a drawn content
\* and the request carries a one-hunk diff for a, written as text and
\* parsed by the handler.
\* ------------------------------------------------------------------------
\* the diff text "--- a/a", "+++ b/a", "@@ -s +s @@", hunk lines
DiffOf(h) ==
  FileSection(PathA, <<HunkHeader(h.oldStart, Undefined, h.newStart, Undefined)>>
                       \o [i \in 1..Len(h.lines) |-> Ln(h.lines[i])])

InitModify ==
  /\ pin \in HunkInputs
  /\ pout = <<>>
  /\ cfg = Config("none", <<>>, <<>>)
  /\ req \in [format : {"git-diff"}, confirm : BOOLEAN,
              patch : {TextPatch(DiffOf(pin.patchData.hunks[1]))}, targetFile : {<<>>}]
  /\ fs = [p \in FsPaths |-> IF p = FsA THEN TextFile(pin.content) ELSE Absent]
  /\ fs0 = fs
  /\ pc = "Received"
  /\ patches = <<>>
  /\ idx = 0
  /\ resolved = <<>>
  /\ summary = NoSummary
  /\ fileResults = <<>>
  /\ original = Absent
  /\ responses = <<>>
  /\ writes = <<>>
  /\ preview = NoPreview
  /\ main = MainDone
  /\ invs = NoInvocations
  /\ exec = NoExec

NextGit == Dispatch \/ ResolvePath \/ ApplyFile \/ Finish

SpecModify == InitModify /\ [][NextGit]_vars

\* ------------------------------------------------------------------------
\* parseUnifiedDiff as a function: the text of a one-file diff whose hunk
\* header is written from drawn numbers (a count of Undefined is left out
\* of the header) is parsed.
\* ------------------------------------------------------------------------
HeaderStarts == {0, 5, 12}
HeaderCounts == {Undefined, 0, 1, 3}

HeaderInputs ==
  [oldStart : HeaderStarts, oldCount : HeaderCounts,
   newStart : HeaderStarts, newCount : HeaderCounts]

\* "--- a/a", "+++ b/a", the header, "+n"
HeaderDiff(h) ==
  FileSection(PathA, <<HunkHeader(h.oldStart, h.oldCount, h.newStart, h.newCount),
                       Ln(<<"+", "n">>)>>)

InitParse ==
  /\ IdleHandler
  /\ pin \in HeaderInputs
  /\ pout = <<>>
  /\ pc = "ParseStart"

ParseStep ==
  /\ pc = "ParseStart"
  /\ pout' = <<parseUnifiedDiff(HeaderDiff(pin))>>
  /\ pc' = "Parsed"
  /\ UNCHANGED <<pin, handlerVars>>

NextParse == ParseStep

SpecParse == InitParse /\ [][NextParse]_vars

\* ------------------------------------------------------------------------
\* The loop of applyUnifiedPatch, one hunk per step: a content and a
\* FilePatch of several hunks are drawn; each step records the start index
\* handed to splice and the locals after the iteration.
\* ------------------------------------------------------------------------
\* hunk bodies: insert two lines, insert one, delete one, replace one,
\* context only
LoopBodies ==
  { << <<"+", "n">>, <<"+", "n">> >>, << <<"+", "n">> >>, << <<"-", "p">> >>,
    << <<"-", "p">>, <<"+", "n">> >>, << <<" ", "p">> >> }

LoopStarts == {1, 3, 10}

LoopHunks == {HunkOf(st, ls) : st \in LoopStarts, ls \in LoopBodies}

LoopInputs ==
  [content : Contents, patchData : {[hunks |-> hs] : hs \in SeqsUpTo(LoopHunks, MaxHunks)}]

InitLoop ==
  /\ IdleHandler
  /\ pin \in LoopInputs
  /\ pout = <<>>
  /\ pc = "HunkLoop"

\* the locals before iteration k
LoopAcc(k) == IF k = 1 THEN ApplyInit(pin.content) ELSE pout[k - 1].acc

HunkLoopStep ==
  /\ pc = "HunkLoop"
  /\ Len(pout) < Len(pin.patchData.hunks)
  /\ LET k == Len(pout) + 1
         hunk == pin.patchData.hunks[k]
     IN pout' = Append(pout, [startIndex |-> StartIndex(LoopAcc(k), hunk),
                              acc |-> ApplyHunk(LoopAcc(k), hunk)])
  /\ UNCHANGED <<pc, pin, handlerVars>>

HunkLoopReturn ==
  /\ pc = "HunkLoop"
  /\ Len(pout) = Len(pin.patchData.hunks)
  /\ pc' = "HunkLoopDone"
  /\ UNCHANGED <<pin, pout, handlerVars>>

NextLoop == HunkLoopStep \/ HunkLoopReturn

SpecLoop == InitLoop /\ [][NextLoop]_vars

\* ------------------------------------------------------------------------
\* The JSON-patch engine as a function: a document, a path and a value are
\* drawn and the operation sequence [add, remove] on that path is applied
\* as applyJsonPatch applies it.
\* ------------------------------------------------------------------------
DocNested == Obj([k \in {"k"} |-> Obj([j \in {"j"} |-> Prim(1)])])
DocArr == Arr(<<Prim(1), Prim(2)>>)
DocKArr == Obj([k \in {"k"} |-> DocArr])
DocNull == Obj([k \in {"k"} |-> Null])
Docs == {DocK, DocNested, DocArr, DocKArr, DocNull, EmptyObj, Arr(<<>>)}

SegmentKeys == {"k", "j", "0", "2", "-"}

\* the texts "/", "/s1", "/s1/s2", ..., each as its split('/')
JsonPaths ==
  {<<"", "">>} \cup {<<"">> \o g : g \in SeqsUpTo(SegmentKeys, MaxPathLen)}

JsonInputs == [doc : Docs, path : JsonPaths, value : {Prim(7), EmptyObj}]

InitJsonOps ==
  /\ IdleHandler
  /\ pin \in JsonInputs
  /\ pout = <<>>
  /\ pc = "JsonStart"

AddOp(in) == [op |-> "add", path |-> in.path, value |-> in.value]
RemoveOp(in) == [op |-> "remove", path |-> in.path, value |-> Undef]

JsonAddStep ==
  /\ pc = "JsonStart"
  /\ pout' = <<ApplyOps(pin.doc, <<AddOp(pin)>>)>>
  /\ pc' = "JsonAdded"
  /\ UNCHANGED <<pin, handlerVars>>

JsonAddRemoveStep ==
  /\ pc = "JsonAdded"
  /\ pout' = Append(pout, ApplyOps(pin.doc, <<AddOp(pin), RemoveOp(pin)>>))
  /\ pc' = "JsonDone"
  /\ UNCHANGED <<pin, handlerVars>>

NextJsonOps == JsonAddStep \/ JsonAddRemoveStep

SpecJsonOps == InitJsonOps /\ [][NextJsonOps]_vars

\* ------------------------------------------------------------------------
\* Vocabulary of the properties
\* ------------------------------------------------------------------------
PathSegs(p) == NormalizeSegs(Split(p, sep), <<>>)

\* t is dir or lies in the subtree of dir, decided on path segments
InsideDir(t, dir) ==
  /\ Len(PathSegs(t)) >= Len(PathSegs(dir))
  /\ SubSeq(PathSegs(t), 1, Len(PathSegs(dir))) = PathSegs(dir)

\* t equals an entry of list, or lies in the subtree of an entry that is an
\* existing directory
InSomeEntry(t, list, f) ==
  \E i \in 1..Len(list) :
    \/ t = list[i]
    \/ isDirectory(f, list[i]) /\ InsideDir(t, list[i])

CanonicalOf(p) == pathResolve(workspaceRoot, p)

LoadedList == loadAllowedPathsConfig(cfg, fs)

DenialErrors == {"Path traversal denied", "Access denied by allowedPaths policy"}

Responded == pc = "Responded" /\ Len(responses) = 1

Failed == Responded /\ ~responses[1].success

Succeeded == Responded /\ responses[1].success

\* the diff request was refused at the path of patches[idx]
GitDenied ==
  /\ req.format = "git-diff"
  /\ Responded
  /\ responses[1].error \in DenialErrors

\* the path of patches[idx] has just passed the access check
GitAccepted == req.format = "git-diff" /\ pc = "Apply"

CurPath == FilePathOf(patches[idx])

\* ------------------------------------------------------------------------
\* C1: when the path of any FilePatch of a diff request is denied, the
\* request fails and no file has been written by it, in commit mode too.
\* ------------------------------------------------------------------------
C1_DenialLeavesNoWrite ==
  GitDenied => (~responses[1].success /\ writes = <<>> /\ fs = fs0)

\* ------------------------------------------------------------------------
\* C2: in preview mode (confirm = false) no file is created, overwritten or
\* modified, in either format, and every per-file status is dry-run.
\* ------------------------------------------------------------------------
C2_PreviewTouchesNothing ==
  ~req.confirm =>
    /\ fs = fs0
    /\ writes = <<>>
    /\ \A i \in 1..Len(fileResults) : fileResults[i].status = "dry-run"

\* a JSON-patch preview that succeeded and previews a changed document
C2_Witness ==
  /\ ~req.confirm
  /\ req.format = "json-patch"
  /\ Succeeded
  /\ responses[1].output.preview.doc # original.doc
  /\ fs = fs0

\* ------------------------------------------------------------------------
\* C3: an absolute path outside the workspace root is denied unless it is
\* contained in an allow-list entry, also when the allow-list is empty; so
\* no commit writes outside the workspace root and the allow-list.
\* ------------------------------------------------------------------------
C3_NoWriteOutside ==
  \A i \in 1..Len(writes) :
    \/ InsideDir(writes[i], workspaceRoot)
    \/ InSomeEntry(writes[i], loadAllowedPathsConfig(cfg, fs0), fs0)

IsTraversal(p) == ~isAbsolute(p) /\ ~InsideDir(CanonicalOf(p), workspaceRoot)

\* the check of patches[idx] has been made
CheckedCurPath ==
  /\ req.format = "git-diff"
  /\ idx \in 1..Len(patches)
  /\ pc # "Resolve"

C5_TraversalDeniedNothingWritten ==
  (CheckedCurPath /\ IsTraversal(CurPath)) =>
    /\ Failed
    /\ responses[1].error = "Path traversal denied"
    /\ writes = <<>>
    /\ fs = fs0

\* the denial alone: the traversal path is refused
C5_DenialAlone ==
  (CheckedCurPath /\ IsTraversal(CurPath)) =>
    (Failed /\ responses[1].error = "Path traversal denied")

\* ------------------------------------------------------------------------
\* C6: with a non-empty loaded allow-list, a target is accepted only if it
\* equals an entry or lies in the subtree of an entry that is an existing
\* directory; a file entry grants only the equal path.
\* ------------------------------------------------------------------------
C6_AcceptedOnlyIfListed ==
  ((GitAccepted \/ pc = "JValidate") /\ LoadedList # <<>>) =>
    InSomeEntry(resolved, LoadedList, fs)

\* a target accepted through the subtree of a directory entry
C6_Witness ==
  /\ GitAccepted
  /\ LoadedList = <<FsD>>
  /\ isDirectory(fs, FsD)
  /\ resolved = FsDA

\* ------------------------------------------------------------------------
\* C10: a structured patch holding an operation without a recognized kind
\* or with an empty path, at any position, is never applied: the request
\* fails and the target file is unchanged, in commit mode too.
\* ------------------------------------------------------------------------
WellFormedOp(op) == op.op \in {"add", "remove", "replace"} /\ op.path # JPathEmpty

HasMalformedOp ==
  /\ req.format = "json-patch"
  /\ \E i \in 1..Len(req.patch.ops) : ~WellFormedOp(req.patch.ops[i])

C10_MalformedNeverApplied ==
  HasMalformedOp =>
    /\ pc # "JApply"
    /\ Responded => ~responses[1].success
    /\ fs = fs0
    /\ writes = <<>>

\* a commit refused by validation although its first operation is valid
C10_Witness ==
  /\ HasMalformedOp
  /\ req.confirm
  /\ Failed
  /\ responses[1].error \in {"Invalid operation", "Unsupported operation type"}
  /\ Len(req.patch.ops) = 2
  /\ WellFormedOp(req.patch.ops[1])
  /\ original = JsonFile(DocK, "orig")


\* ------------------------------------------------------------------------
\* C7: a diff request reports the same totalLinesAdded and the same
\* totalLinesRemoved in preview mode and in commit mode.
\* ------------------------------------------------------------------------
C7_SameTotals ==
  (preview.done /\ Succeeded) =>
    /\ summary.totalLinesAdded = preview.summary.totalLinesAdded
    /\ summary.totalLinesRemoved = preview.summary.totalLinesRemoved

\* ------------------------------------------------------------------------
\* C8: applying a valid single-hunk diff to X and then its inverse yields X.
\* ------------------------------------------------------------------------
RECURSIVE MatchesAt(_, _, _)
\* the context and deletion lines ls match content X from line pos on
MatchesAt(X, ls, pos) ==
  IF ls = <<>> THEN TRUE
  ELSE IF IsAddition(Head(ls)) THEN MatchesAt(X, Tail(ls), pos)
  ELSE /\ pos <= Len(X)
       /\ X[pos] = Strip1(Head(ls))
       /\ MatchesAt(X, Tail(ls), pos + 1)

ValidHunk(X, h) == h.oldStart >= 1 /\ MatchesAt(X, h.lines, h.oldStart)

C8_RoundTrip ==
  (pc = "HunkInverted" /\ ValidHunk(pin.content, pin.patchData.hunks[1])) =>
    pout[2].content = pin.content

\* ------------------------------------------------------------------------
\* C9: [Add(P, V), Remove(P)] yields a document structurally equal to D,
\* for every D, P and V.
\* ------------------------------------------------------------------------
C9_AddRemoveIsIdentity ==
  (pc = "JsonDone" /\ pout[2].ok) => pout[2].v = pin.doc

RECURSIVE FreshLeaf(_, _)
\* segments address a member that is absent from an existing container:
\* every intermediate segment leads to an object or array, and the last
\* one is a key its object parent lacks or the length of its array parent
FreshLeaf(cur, segments) ==
  /\ IsContainer(cur)
  /\ segments # <<>>
  /\ IF Len(segments) = 1
       THEN \/ cur.t = "obj" /\ segments[1] \notin DOMAIN cur.f
            \/ /\ cur.t = "arr"
               /\ IsIndex(segments[1])
               /\ ToIndex(segments[1]) = Len(cur.s)
       ELSE FreshLeaf(Get(cur, Head(segments)), Tail(segments))

\* C9 as amended: when P has a segment, its intermediate segments address
\* existing containers of D and its last segment is a key absent from its
\* object parent or the index equal to the length of its array parent,
\* [Add(P, V), Remove(P)] succeeds and yields a document equal to D.
C9_AddRemoveFreshLeaf ==
  (pc = "JsonDone" /\ FreshLeaf(pin.doc, Segments(pin.path))) =>
    (pout[2].ok /\ pout[2].v = pin.doc)

\* an element added at the end of a nested array and removed again
C9_Witness ==
  /\ pc = "JsonDone"
  /\ pin.doc = DocKArr
  /\ Segments(pin.path) = <<"k", "2">>
  /\ pout[1].ok /\ pout[1].v # pin.doc
  /\ pout[2].v = pin.doc

\* ------------------------------------------------------------------------
\* C11: a JSON-patch request leaves every file with its previous content,
\* or leaves the target holding the serialization of the document with
\* every operation applied in order; the result of a proper prefix of the
\* operations is never written.
\* ------------------------------------------------------------------------
C11_AllOrNothing ==
  req.format = "json-patch" =>
    \A p \in FsPaths :
      \/ fs[p] = fs0[p]
      \/ /\ p = resolved
         /\ fs0[p].k = "json"
         /\ ApplyOps(fs0[p].doc, req.patch.ops).ok
         /\ fs[p] = JsonFile(Stringify(ApplyOps(fs0[p].doc, req.patch.ops).v), "pretty")

\* a commit whose first operation alone changes the document and whose
\* second operation throws: answered with a failure, nothing written
C11_Witness ==
  /\ req.format = "json-patch" /\ req.confirm
  /\ Failed
  /\ responses[1].error = "Failed to apply JSON patch"
  /\ original.k = "json"
  /\ Len(req.patch.ops) = 2
  /\ ApplyOps(original.doc, <<req.patch.ops[1]>>).ok
  /\ ApplyOps(original.doc, <<req.patch.ops[1]>>).v # original.doc
  /\ ~ApplyOps(original.doc, req.patch.ops).ok
  /\ fs = fs0

\* ------------------------------------------------------------------------
\* C12: the splice index used for hunk k is oldStart_k - 1 plus the sum,
\* over the hunks before k, of their Addition lines minus their Deletion
\* lines.
\* ------------------------------------------------------------------------
C12_OffsetPropagation ==
  pc \in {"HunkLoop", "HunkLoopDone"} =>
    \A k \in 1..Len(pout) :
      LET hunks == pin.patchData.hunks
          earlier == SubSeq(hunks, 1, k - 1)
      IN pout[k].startIndex =
           hunks[k].oldStart - 1 + CountAdded(earlier) - CountRemoved(earlier)

\* after a first hunk inserting two lines at line 3, a second hunk with
\* oldStart 10 is applied at index 11
C12_Witness ==
  /\ pc = "HunkLoopDone"
  /\ Len(pout) = 2
  /\ pin.patchData.hunks[1] = HunkOf(3, << <<"+", "n">>, <<"+", "n">> >>)
  /\ pin.patchData.hunks[2] = HunkOf(10, << <<"-", "p">> >>)
  /\ pout[2].startIndex = 11

\* ------------------------------------------------------------------------
\* C13: in commit mode a FilePatch whose target does not exist creates the
\* file with all Addition lines of all its hunks, in order, joined by
\* newline; the per-file status is created and the reported linesAdded is
\* the number of Addition lines.
\* ------------------------------------------------------------------------
\* the step of handleGitDiff that writes a target that did not exist
CreatesFile ==
  /\ pc = "Apply"
  /\ req.confirm
  /\ ~existsSync(fs, resolved)
  /\ writes' = Append(writes, resolved)

C13_NewFileCreated ==
  [][CreatesFile =>
       /\ fs'[resolved] = TextFile(JoinLines(AllAdditions(patches[idx].hunks)))
       /\ fileResults'[Len(fileResults')].status = "created"
       /\ fileResults'[Len(fileResults')].linesAdded = CountAdded(patches[idx].hunks)]_vars

\* C13 without the reported count: content and status of the created file
C13_ContentAndStatus ==
  [][CreatesFile =>
       /\ fs'[resolved] = TextFile(JoinLines(AllAdditions(patches[idx].hunks)))
       /\ fileResults'[Len(fileResults')].status = "created"
       /\ fileResults'[Len(fileResults')].linesRemoved = 0]_vars

\* C13 for a FilePatch with at least one Addition line
C13_CountWhenAdditions ==
  [][(CreatesFile /\ CountAdded(patches[idx].hunks) > 0) =>
       fileResults'[Len(fileResults')].linesAdded = CountAdded(patches[idx].hunks)]_vars

\* ------------------------------------------------------------------------
\* C14: for an existing file L1..Ln and a single hunk with oldStart k,
\* 1 <= k <= n, whose body is the Deletion of Lk followed by one Addition
\* T, the commit leaves L1..L(k-1), T, L(k+1)..Ln and reports status
\* modified with linesAdded = 1 and linesRemoved = 1.
\* ------------------------------------------------------------------------
\* the drawn hunk replaces line oldStart of the drawn content
ReplacesLine(in) ==
  LET h == in.patchData.hunks[1] IN
  /\ h.oldStart \in 1..Len(in.content)
  /\ Len(h.lines) = 2
  /\ h.lines[1] = <<"-">> \o in.content[h.oldStart]
  /\ IsAddition(h.lines[2])

C14_ReplaceLine ==
  (pc = "Responded" /\ req.confirm /\ ReplacesLine(pin)) =>
    LET h == pin.patchData.hunks[1] IN
    /\ Succeeded
    /\ fs[FsA] = TextFile([i \in 1..Len(pin.content) |->
                   IF i = h.oldStart THEN Strip1(h.lines[2]) ELSE pin.content[i]])
    /\ fileResults = <<FileResult(PathA, "modified", 1, 1)>>
    /\ summary.totalLinesAdded = 1 /\ summary.totalLinesRemoved = 1

\* line 2 of a three-line file replaced
C14_Witness ==
  /\ pc = "Responded" /\ req.confirm /\ ReplacesLine(pin)
  /\ Len(pin.content) = 3
  /\ pin.patchData.hunks[1].oldStart = 2
  /\ fs[FsA] # fs0[FsA]

\* ------------------------------------------------------------------------
\* C15: the parsed hunk has oldLines = 1 when the header leaves out the
\* old count and newLines = 1 when it leaves out the new count, each
\* independently of the other, and otherwise the counts written in the
\* header, 0 included.
\* ------------------------------------------------------------------------
C15_CountsDefaultToOne ==
  pc = "Parsed" =>
    /\ Len(pout[1]) = 1
    /\ Len(pout[1][1].hunks) = 1
    /\ LET hunk == pout[1][1].hunks[1] IN
       /\ hunk.oldLines = (IF pin.oldCount = Undefined THEN 1 ELSE pin.oldCount)
       /\ hunk.newLines = (IF pin.newCount = Undefined THEN 1 ELSE pin.newCount)
       /\ hunk.oldStart = pin.oldStart
       /\ hunk.newStart = pin.newStart

\* a header without old count and with new count 0, as "@@ -5 +5,0 @@"
C15_Witness ==
  /\ pc = "Parsed"
  /\ pin.oldCount = Undefined /\ pin.newCount = 0
  /\ pout[1][1].hunks[1].oldLines = 1
  /\ pout[1][1].hunks[1].newLines = 0

\* ------------------------------------------------------------------------
\* C16: a diff request whose text has no completed old-file/new-file header
\* pair (so that it yields zero FilePatches) fails with the "no patches
\* found" error and writes nothing, with confirm true or false.
\* ------------------------------------------------------------------------
\* no "+++ " line comes after a "--- " line
NoHeaderPair(lines) ==
  ~\E i, j \in 1..Len(lines) :
      i < j /\ StartsWith(lines[i].s, OldMarker) /\ StartsWith(lines[j].s, NewMarker)

C16_NoPatchesFound ==
  (req.format = "git-diff" /\ ~Missing(req.patch) /\ NoHeaderPair(req.patch.lines)) =>
    /\ parseUnifiedDiff(req.patch.lines) = <<>>
    /\ pc \in {"Received", "Responded"}
    /\ fs = fs0 /\ writes = <<>>
    /\ Responded => (Failed /\ responses[1].error = "No patches found in the provided diff")

\* a commit whose text has an old-file marker and a hunk but no new-file
\* marker, answered
C16_Witness ==
  /\ req.format = "git-diff" /\ req.confirm
  /\ req.patch.lines = OldOnlyText
  /\ existsSync(fs, FsA)
  /\ Failed
  /\ responses[1].error = "No patches found in the provided diff"

\* ------------------------------------------------------------------------
\* C17: a request whose format is neither git-diff nor json-patch is
\* answered with a failure straight from the dispatch: no path is
\* resolved (the step that loads the allow-list), no file is read or
\* written.
\* ------------------------------------------------------------------------
UnsupportedFormat == req.format \notin {"git-diff", "json-patch", NoFormat}

C17_UnsupportedFailsFirst ==
  UnsupportedFormat =>
    /\ pc \in {"Received", "Responded"}
    /\ patches = <<>> /\ resolved = <<>> /\ original = Absent
    /\ fs = fs0 /\ writes = <<>>
    /\ Responded => (Failed /\ responses[1].error = "Unsupported patch format")

\* a commit in an unknown format for an existing file, answered
C17_Witness ==
  /\ UnsupportedFormat /\ req.confirm
  /\ existsSync(fs, FsA)
  /\ Failed /\ responses[1].error = "Unsupported patch format"

\* ------------------------------------------------------------------------
\* C18: whatever the interleaving of stdin chunks, stdin end and the
\* timer, at most one response is written, and once stdin has ended a
\* response is eventually written and the invocation is Responded.
\* ------------------------------------------------------------------------
C18_ExactlyOneResponse ==
  /\ [](Len(responses) <= 1)
  /\ [](pc = "Responded" => Len(responses) = 1)
  /\ (main.ended ~> (pc = "Responded" /\ Len(responses) = 1))

\* a commit answered after the timer fired while the request text was
\* still arriving
C18_Witness ==
  /\ pc = "Responded" /\ Len(responses) = 1
  /\ main.ended /\ main.timer = "fired"
  /\ main.input.action = "applyPatch"
  /\ req.confirm /\ Succeeded /\ writes # <<>>

\* ------------------------------------------------------------------------
\* Two invocations of the skill run as separate processes on the same
\* workspace.  Each is a commit of a one-hunk git-diff for the existing
\* file a; its handler is followed system call by system call: the path
\* check, fs.existsSync and fs.readFileSync with applyUnifiedPatch, and
\* fs.writeFileSync, which opens the target with flag 'w' (the file is
\* truncated) and then writes the data.  A process may be killed between
\* any two of its steps.
\* ------------------------------------------------------------------------
Invocations == {"A", "B"}

RaceContent == <<LineP, LineQ, LineR>>

\* a hunk replacing line k of the file by the line l
RaceEdit(k, l) ==
  [hunks |-> <<HunkOf(k, << <<"-">> \o RaceContent[k], <<"+">> \o l >>)>>]

RaceEdits == {RaceEdit(k, l) : k \in 1..Len(RaceContent), l \in {<<"n">>, <<"m">>}}

NoResult == [content |-> <<>>, linesAdded |-> 0, linesRemoved |-> 0]

\* the content of a file of length 0
EmptyContent == JoinLines(<<>>)

InitRace ==
  /\ invs \in [Invocations -> [pc : {"Received"}, patchData : RaceEdits,
                               resolved : {<<>>}, originalContent : {<<>>},
                               result : {NoResult}, wrote : {0}]]
  /\ cfg = Config("none", <<>>, <<>>)
  /\ fs = [p \in FsPaths |-> IF p = FsA THEN TextFile(RaceContent) ELSE Absent]
  /\ fs0 = fs
  /\ req = [format |-> "git-diff", confirm |-> TRUE, patch |-> TextPatch(EmptyText),
            targetFile |-> <<>>]
  /\ pc = "Idle"
  /\ patches = <<>>
  /\ idx = 0
  /\ resolved = <<>>
  /\ summary = NoSummary
  /\ fileResults = <<>>
  /\ original = Absent
  /\ responses = <<>>
  /\ writes = <<>>
  /\ preview = NoPreview
  /\ pin = <<>>
  /\ pout = <<>>
  /\ main = MainDone
  /\ exec = NoExec

\* what an invocation's step leaves alone
RaceFrame ==
  UNCHANGED <<fs0, cfg, req, pc, patches, idx, resolved, summary, fileResults,
              original, responses, preview, pin, pout, main, exec>>

\* the path check of the loop body
RaceResolve(i) ==
  /\ invs[i].pc = "Received"
  /\ LET r == ResolveTarget(PathA, cfg, fs) IN
     /\ r.ok
     /\ invs' = [invs EXCEPT ![i].pc = "Resolved", ![i].resolved = r.resolved]
  /\ UNCHANGED <<fs, writes>>
  /\ RaceFrame

\* RaceRead taken only while no other invocation is between its read and
\* the end of its write
RaceReadExclusive(i) ==
  /\ invs[i].pc = "Resolved"
  /\ \A j \in Invocations \ {i} : invs[j].pc \notin {"Read", "Opened"}
  /\ existsSync(fs, invs[i].resolved)
  /\ fs[invs[i].resolved].k = "text"
  /\ LET originalContent == fs[invs[i].resolved].lines IN
     invs' = [invs EXCEPT ![i].pc = "Read",
                          ![i].originalContent = originalContent,
                          ![i].result = applyUnifiedPatch(originalContent, invs[i].patchData)]
  /\ UNCHANGED <<fs, writes>>
  /\ RaceFrame

\* the target exists: originalContent = fs.readFileSync(resolved) and
\* result = applyUnifiedPatch(originalContent, patchData)
RaceRead(i) ==
  /\ invs[i].pc = "Resolved"
  /\ existsSync(fs, invs[i].resolved)
  /\ fs[invs[i].resolved].k = "text"
  /\ LET originalContent == fs[invs[i].resolved].lines IN
     invs' = [invs EXCEPT ![i].pc = "Read",
                          ![i].originalContent = originalContent,
                          ![i].result = applyUnifiedPatch(originalContent, invs[i].patchData)]
  /\ UNCHANGED <<fs, writes>>
  /\ RaceFrame

\* fs.writeFileSync(resolved, result.content), first half: open(resolved, 'w')
RaceOpen(i) ==
  /\ invs[i].pc = "Read"
  /\ CanWrite(fs, invs[i].resolved)
  /\ fs' = writeFileSync(fs, invs[i].resolved, TextFile(EmptyContent))
  /\ invs' = [invs EXCEPT ![i].pc = "Opened"]
  /\ UNCHANGED writes
  /\ RaceFrame

\* fs.writeFileSync(resolved, result.content), second half: write and close
RaceWriteData(i) ==
  /\ invs[i].pc = "Opened"
  /\ fs' = writeFileSync(fs, invs[i].resolved, TextFile(invs[i].result.content))
  /\ writes' = Append(writes, invs[i].resolved)
  /\ invs' = [invs EXCEPT ![i].pc = "Done", ![i].wrote = Len(writes) + 1]
  /\ RaceFrame

\* the process is killed before its handler has finished
RaceCrash(i) ==
  /\ invs[i].pc \notin {"Done", "Crashed"}
  /\ invs' = [invs EXCEPT ![i].pc = "Crashed"]
  /\ UNCHANGED <<fs, writes>>
  /\ RaceFrame

NextRace ==
  \/ \E i \in Invocations : RaceResolve(i)
  \/ \E i \in Invocations : RaceRead(i)
  \/ \E i \in Invocations : RaceOpen(i)
  \/ \E i \in Invocations : RaceWriteData(i)
  \/ \E i \in Invocations : RaceCrash(i)

SpecRace == InitRace /\ [][NextRace]_vars

\* the content left by applying first x's patch, then y's, one after the
\* other
Serial(x, y) ==
  applyUnifiedPatch(applyUnifiedPatch(RaceContent, invs[x].patchData).content,
                    invs[y].patchData).content

\* ------------------------------------------------------------------------
\* C19: nothing excludes one invocation while another is between its
\* read and its write: whenever one invocation has read the file and not
\* yet written it, another that has passed its path check can read the
\* file too; and when both have finished, the file holds the patch of the
\* last writer applied to the content that writer read, whatever was
\* written in between.
\* ------------------------------------------------------------------------
C19_NoMutualExclusion ==
  /\ \A i \in Invocations : \A j \in Invocations \ {i} :
       (invs[i].pc \in {"Read", "Opened"} /\ invs[j].pc = "Resolved"
          /\ fs[FsA].k = "text")
         => ENABLED RaceRead(j)
  /\ (\A j \in Invocations : invs[j].pc = "Done") =>
       \A i \in Invocations :
         invs[i].wrote = Len(writes) =>
           fs[FsA] = TextFile(applyUnifiedPatch(invs[i].originalContent,
                                                invs[i].patchData).content)

\* the lost update: A read the file, B read and wrote it, then A wrote;
\* the file holds A's edit of the original content, B's edit is gone, and
\* the content is that of neither serial order
C19_Witness ==
  /\ invs["A"].pc = "Done" /\ invs["B"].pc = "Done"
  /\ invs["A"].originalContent = RaceContent
  /\ invs["B"].originalContent = RaceContent
  /\ invs["B"].wrote = 1 /\ invs["A"].wrote = 2
  /\ fs[FsA] = TextFile(applyUnifiedPatch(RaceContent, invs["A"].patchData).content)
  /\ fs[FsA].lines # Serial("A", "B")
  /\ fs[FsA].lines # Serial("B", "A")
  /\ invs["B"].patchData.hunks[1].oldStart # invs["A"].patchData.hunks[1].oldStart

\* the complete contents the target can hold: the one it had, and the
\* results the invocations have computed
CompleteContents ==
  {fs0[FsA]} \cup {TextFile(invs[i].result.content) :
                     i \in {j \in Invocations : invs[j].result # NoResult}}

\* ------------------------------------------------------------------------
\* C20: at every step of a commit, and after a crash at any step, the
\* target holds its complete old content or a complete new content, never
\* an empty or partly written one.
\* ------------------------------------------------------------------------
C20_AtomicWrite == fs[FsA] \in CompleteContents

\* ------------------------------------------------------------------------
\* One operation of the JSON-patch engine as a function: a document, a
\* path and a value are drawn; one step applies the single operation
\* remove, another applies add and, separately, replace.
\* ------------------------------------------------------------------------
RemoveKeys == SegmentKeys \cup {"-1"}

OneOpPaths ==
  {<<"", "">>} \cup {<<"">> \o g : g \in SeqsUpTo(RemoveKeys, MaxPathLen)}

OneOpInputs == [doc : Docs, path : OneOpPaths, value : {Prim(7), EmptyObj}]

InitJsonOne ==
  /\ IdleHandler
  /\ pin \in OneOpInputs
  /\ pout = <<>>
  /\ pc = "JsonStart"

ReplaceOp(in) == [op |-> "replace", path |-> in.path, value |-> in.value]

JsonRemoveStep ==
  /\ pc = "JsonStart"
  /\ pout' = <<ApplyOps(pin.doc, <<RemoveOp(pin)>>)>>
  /\ pc' = "JsonRemoved"
  /\ UNCHANGED <<pin, handlerVars>>

JsonSetStep ==
  /\ pc = "JsonStart"
  /\ pout' = <<ApplyOps(pin.doc, <<AddOp(pin)>>), ApplyOps(pin.doc, <<ReplaceOp(pin)>>)>>
  /\ pc' = "JsonSet"
  /\ UNCHANGED <<pin, handlerVars>>

NextJsonOne == JsonRemoveStep \/ JsonSetStep

SpecJsonOne == InitJsonOne /\ [][NextJsonOne]_vars

RECURSIVE Addresses(_, _)
\* segments address an existing member of cur: every intermediate segment
\* leads to an object or array, and the last one is a key of its object
\* parent or an index below the length of its array parent
Addresses(cur, segments) ==
  /\ IsContainer(cur)
  /\ segments # <<>>
  /\ IF Len(segments) = 1
       THEN \/ cur.t = "obj" /\ segments[1] \in DOMAIN cur.f
            \/ /\ cur.t = "arr"
               /\ IsIndex(segments[1])
               /\ ToIndex(segments[1]) < Len(cur.s)
       ELSE Addresses(Get(cur, Head(segments)), Tail(segments))

RECURSIVE OddKeyOnArray(_, _)
\* the last segment is not a canonical index and the intermediate
\* segments lead to a non-empty array
OddKeyOnArray(cur, segments) ==
  /\ IsContainer(cur)
  /\ segments # <<>>
  /\ IF Len(segments) = 1
       THEN cur.t = "arr" /\ cur.s # <<>> /\ ~IsIndex(segments[1])
       ELSE OddKeyOnArray(Get(cur, Head(segments)), Tail(segments))

\* ------------------------------------------------------------------------
\* C21: a Remove whose path has a segment and addresses no existing member
\* of the document reports no error and leaves the document equal to the
\* original.
\* ------------------------------------------------------------------------
C21_RemoveMissingIsNoOp ==
  (pc = "JsonRemoved" /\ Segments(pin.path) # <<>>
     /\ ~Addresses(pin.doc, Segments(pin.path)))
    => (pout[1].ok /\ pout[1].v = pin.doc)

\* C21 apart from a non-index last segment on a non-empty array: a missing
\* key, a missing intermediate container and an index at or beyond the
\* length are removed silently, the document unchanged
C21_NoOpOffArrays ==
  (pc = "JsonRemoved" /\ Segments(pin.path) # <<>>
     /\ ~Addresses(pin.doc, Segments(pin.path))
     /\ ~OddKeyOnArray(pin.doc, Segments(pin.path)))
    => (pout[1].ok /\ pout[1].v = pin.doc)

\* C21 on such a segment: the remove succeeds and takes an element out of
\* the array
C21_OddKeyRemovesElement ==
  (pc = "JsonRemoved" /\ OddKeyOnArray(pin.doc, Segments(pin.path)))
    => (pout[1].ok /\ pout[1].v # pin.doc)

\* ------------------------------------------------------------------------
\* parseUnifiedDiff line by line: a diff text is drawn, either up to
\* MaxLines free lines or those lines after an opened hunk ("--- a/a",
\* "+++ b/a", "@@ -1 +1 @@"), and the for loop is followed one iteration
\* at a time; pout[k] holds the parser's locals after k lines.
\* ------------------------------------------------------------------------
LOld == Ln(OldMarker \o <<"a", "/">> \o PathA)
LNew == Ln(NewMarker \o <<"b", "/">> \o PathA)
LHunk == HunkHeader(1, Undefined, 1, Undefined)
LAdd == Ln(<<"+", "n">>)
LDel == Ln(<<"-", "p">>)
LCtx == Ln(<<" ", "q">>)
LEmpty == Ln(<<>>)
LOther == Ln(<<"x">>)

DiffLines == {LOld, LNew, LHunk, LAdd, LDel, LCtx, LEmpty, LOther}

OpenedHunk == <<LOld, LNew, LHunk>>

LineTexts ==
  {pre \o t : pre \in {<<>>, OpenedHunk}, t \in SeqsUpTo(DiffLines, MaxLines)}

InitLines ==
  /\ IdleHandler
  /\ pin \in LineTexts
  /\ pout = <<>>
  /\ pc = "ParseLoop"

\* the parser's locals before line k
Before(k) == IF k = 1 THEN ParseInit ELSE pout[k - 1]

\* one iteration: i = Len(pout) + 1
ParseLineStep ==
  /\ pc = "ParseLoop"
  /\ Len(pout) < Len(pin)
  /\ pout' = Append(pout, ParseLine(Before(Len(pout) + 1), pin[Len(pout) + 1]))
  /\ UNCHANGED <<pc, pin, handlerVars>>

\* i = lines.length: return patches
ParseReturn ==
  /\ pc = "ParseLoop"
  /\ Len(pout) = Len(pin)
  /\ pc' = "ParseReturned"
  /\ UNCHANGED <<pin, pout, handlerVars>>

NextLines == ParseLineStep \/ ParseReturn

SpecLines == InitLines /\ [][NextLines]_vars

IsMarker(t) == StartsWith(t, OldMarker) \/ StartsWith(t, NewMarker)

\* the parser's locals with text t appended to the open hunk and nothing
\* else changed
AppendedToHunk(st, t) ==
  [st EXCEPT !.objs[st.hunk[1]].hunks[st.hunk[2]].lines = Append(@, t)]

\* ------------------------------------------------------------------------
\* C22: once a hunk header has opened a hunk, every line that starts with
\* '+', '-' or a space, or is empty, is appended to that hunk and changes
\* nothing else of the parser's state: no FilePatch is created or put
\* into the output by it.
\* ------------------------------------------------------------------------
C22_ContentLineAppended ==
  \A k \in 1..Len(pout) :
    (Before(k).hunk # <<0, 0>> /\ IsHunkContent(pin[k].s))
      => pout[k] = AppendedToHunk(Before(k), pin[k].s)

\* C22 for the lines that do not start with "--- " or "+++ "
C22_AppendedUnlessMarker ==
  \A k \in 1..Len(pout) :
    (Before(k).hunk # <<0, 0>> /\ IsHunkContent(pin[k].s) /\ ~IsMarker(pin[k].s))
      => pout[k] = AppendedToHunk(Before(k), pin[k].s)

\* C22 for the lines that do: the open hunk does not receive the line
C22_MarkerNeverAppended ==
  \A k \in 1..Len(pout) :
    (Before(k).hunk # <<0, 0>> /\ IsMarker(pin[k].s))
      => pout[k] # AppendedToHunk(Before(k), pin[k].s)

\* hunk.lines of the hunk that reference h denotes in the locals st
HunkLinesAt(st, h) == st.objs[h[1]].hunks[h[2]].lines

\* line j lies in a hunk body and is neither hunk content nor a hunk header
EndsCollection(j) ==
  /\ Before(j).hunk # <<0, 0>>
  /\ ~IsHunkContent(pin[j].s)
  /\ pin[j].hm = <<>>

\* ------------------------------------------------------------------------
\* C23: after a line in a hunk body that does not start with '+', '-' or a
\* space and is not empty, the hunk that was open at that line receives no
\* further line.
\* ------------------------------------------------------------------------
C23_OtherLineEndsHunk ==
  \A j \in 1..Len(pout) : \A k \in j..Len(pout) :
    EndsCollection(j) =>
      HunkLinesAt(pout[k], Before(j).hunk) = HunkLinesAt(Before(j), Before(j).hunk)

\* C23 as the code has it: the hunk stays open across such a line, and
\* every later content line that is no file marker, up to the next hunk
\* header, is appended to it
C23_HunkStaysOpen ==
  \A j \in 1..Len(pout) :
    EndsCollection(j) => pout[j] = Before(j)

\* no duplicate among the references of the output sequence
NoDuplicate(refs) == \A i, j \in 1..Len(refs) : refs[i] = refs[j] => i = j

\* the number of old-file markers among the first k lines that a new-file
\* marker among those lines follows before the next old-file marker
HeaderPairs(k) ==
  Cardinality({i \in 1..k :
     /\ StartsWith(pin[i].s, OldMarker)
     /\ \E j \in (i + 1)..k :
          /\ StartsWith(pin[j].s, NewMarker)
          /\ \A m \in (i + 1)..(j - 1) : ~StartsWith(pin[m].s, OldMarker)})

\* the number of lines that set newFile of the FilePatch object o
TimesPathSet(o) ==
  Cardinality({k \in 1..Len(pin) :
     StartsWith(pin[k].s, NewMarker) /\ Before(k).current = o})

\* ------------------------------------------------------------------------
\* C24: the returned output holds one FilePatch per header pair of the
\* text and no FilePatch twice, the target path of each was set once, and
\* every hunk belongs to a FilePatch of the output.
\* ------------------------------------------------------------------------
C24_OnePatchPerPair ==
  (pc = "ParseReturned" /\ pin # <<>>) =>
    LET st == pout[Len(pout)] IN
    /\ NoDuplicate(st.patches)
    /\ Len(st.patches) = HeaderPairs(Len(pin))
    /\ \A i \in 1..Len(st.patches) : TimesPathSet(st.patches[i]) = 1
    /\ \A o \in 1..Len(st.objs) : st.objs[o].hunks # <<>> => InSeq(o, st.patches)

\* the markers of the text come in adjacent pairs only: each "--- " line
\* is directly followed by a "+++ " line and each "+++ " line directly
\* follows a "--- " line
MarkersPaired ==
  \A i \in 1..Len(pin) :
    /\ StartsWith(pin[i].s, OldMarker) =>
         (i < Len(pin) /\ StartsWith(pin[i + 1].s, NewMarker))
    /\ StartsWith(pin[i].s, NewMarker) =>
         (i > 1 /\ StartsWith(pin[i - 1].s, OldMarker))

\* C24 on the texts whose markers come in adjacent pairs: when the whole
\* text is read the output holds one FilePatch per pair, none twice, and
\* every hunk belongs to a FilePatch of the output
C24_OnePatchPerAdjacentPair ==
  (pc = "ParseReturned" /\ MarkersPaired /\ pin # <<>>) =>
    LET st == pout[Len(pout)] IN
    /\ NoDuplicate(st.patches)
    /\ Len(st.patches) = HeaderPairs(Len(pin))
    /\ \A i \in 1..Len(st.patches) : TimesPathSet(st.patches[i]) = 1
    /\ \A o \in 1..Len(st.objs) : st.objs[o].hunks # <<>> => InSeq(o, st.patches)

\* ------------------------------------------------------------------------
\* C25: every hunk of the parser's output has oldStart >= 1 and
\* newStart >= 1.
\* ------------------------------------------------------------------------
C25_StartsAtLeastOne ==
  pc = "Parsed" =>
    \A i \in 1..Len(pout[1]) : \A j \in 1..Len(pout[1][i].hunks) :
      pout[1][i].hunks[j].oldStart >= 1 /\ pout[1][i].hunks[j].newStart >= 1

\* C25 as the code has it: the parsed hunk carries the numbers of the
\* header as written, 0 included, and StartIndex of the first hunk is
\* oldStart - 1
C25_StartsAsWritten ==
  pc = "Parsed" =>
    /\ Len(pout[1]) = 1 /\ Len(pout[1][1].hunks) = 1
    /\ pout[1][1].hunks[1].oldStart = pin.oldStart
    /\ pout[1][1].hunks[1].newStart = pin.newStart
    /\ StartIndex(ApplyInit(<<LineP>>), pout[1][1].hunks[1]) = pin.oldStart - 1

\* ------------------------------------------------------------------------
\* shell-skill, handleExec from the spawn on.  exec holds the locals of
\* the promise executor: the child (running, failed to spawn, exited, or
\* closed once its streams have ended too), its exit code, the timeout
\* timer, the 2-second timer set by it, the flags timedOut and settled,
\* the signals passed to child.kill, and the number of stdout chunks
\* collected.  respond ends the process, so no callback runs after it.
\* ------------------------------------------------------------------------
ExitCodes == {0, 1}

\* the code of a child ended by a signal
NullCode == -1

InitExec ==
  /\ exec \in [child : {"running", "failed"}, trapsTerm : BOOLEAN, exitCode : {NullCode},
               timer : {"armed"}, killTimer : {"none"}, timedOut : {FALSE},
               settled : {FALSE}, kills : {<<>>}, stdoutBuf : {0}]
  /\ pc = "Executing"
  /\ fs = [p \in FsPaths |-> Absent]
  /\ fs0 = fs
  /\ cfg = Config("none", <<>>, <<>>)
  /\ req = [format |-> "none", confirm |-> FALSE, patch |-> TextPatch(EmptyText),
            targetFile |-> <<>>]
  /\ patches = <<>>
  /\ idx = 0
  /\ resolved = <<>>
  /\ summary = NoSummary
  /\ fileResults = <<>>
  /\ original = Absent
  /\ responses = <<>>
  /\ writes = <<>>
  /\ preview = NoPreview
  /\ pin = <<>>
  /\ pout = <<>>
  /\ main = MainDone
  /\ invs = NoInvocations

\* what a step of handleExec leaves alone
ExecFrame ==
  UNCHANGED <<fs, fs0, cfg, req, patches, idx, resolved, summary, fileResults,
              original, writes, preview, pin, pout, main, invs>>

\* respond(success, output, error, metadata) of shell-skill
respondExec(success, output, error, metadata) ==
  /\ responses' = Append(responses, [success |-> success, output |-> output,
                                     error |-> error, metadata |-> metadata])
  /\ pc' = "Responded"

ExecOutput(code) == [stdout |-> exec.stdoutBuf, exitCode |-> code]

\* child.stdout.on('data')
ChildOutput ==
  /\ pc = "Executing"
  /\ exec.child = "running"
  /\ exec.stdoutBuf < MaxChunks
  /\ exec' = [exec EXCEPT !.stdoutBuf = @ + 1]
  /\ UNCHANGED <<pc, responses>>
  /\ ExecFrame

\* the command ends by itself with some exit code
ChildExit ==
  /\ pc = "Executing"
  /\ exec.child = "running"
  /\ \E code \in ExitCodes : exec' = [exec EXCEPT !.child = "exited", !.exitCode = code]
  /\ UNCHANGED <<pc, responses>>
  /\ ExecFrame

\* the command is ended by a signal: SIGTERM unless it traps it, SIGKILL
\* always
ChildKilled ==
  /\ pc = "Executing"
  /\ exec.child = "running"
  /\ \/ InSeq("SIGKILL", exec.kills)
     \/ InSeq("SIGTERM", exec.kills) /\ ~exec.trapsTerm
  /\ exec' = [exec EXCEPT !.child = "exited", !.exitCode = NullCode]
  /\ UNCHANGED <<pc, responses>>
  /\ ExecFrame

\* the timeout callback
ExecTimeout ==
  /\ pc = "Executing"
  /\ exec.timer = "armed"
  /\ exec.child # "failed"
  /\ exec' = [exec EXCEPT !.timer = "fired", !.timedOut = TRUE,
                          !.kills = Append(@, "SIGTERM"), !.killTimer = "armed"]
  /\ UNCHANGED <<pc, responses>>
  /\ ExecFrame

\* the callback of the 2-second timer
KillTimeout ==
  /\ pc = "Executing"
  /\ exec.killTimer = "armed"
  /\ exec' = [exec EXCEPT !.killTimer = "fired", !.kills = Append(@, "SIGKILL")]
  /\ UNCHANGED <<pc, responses>>
  /\ ExecFrame

\* child.on('error'): the shell could not be spawned
ChildError ==
  /\ pc = "Executing"
  /\ exec.child = "failed"
  /\ ~exec.settled
  /\ exec' = [exec EXCEPT !.settled = TRUE,
                          !.timer = IF @ = "armed" THEN "cleared" ELSE @]
  /\ respondExec(FALSE, ExecOutput(NullCode), "Process error", [timedOut |-> FALSE])
  /\ ExecFrame

\* ChildClose reporting by the exit code alone
ChildCloseByCode ==
  /\ pc = "Executing"
  /\ exec.child = "exited"
  /\ ~exec.settled
  /\ exec' = [exec EXCEPT !.child = "closed", !.settled = TRUE,
                          !.timer = IF @ = "armed" THEN "cleared" ELSE @]
  /\ respondExec(exec.exitCode = 0, ExecOutput(exec.exitCode),
                 IF exec.exitCode # 0 THEN "Command exited with code" ELSE "none",
                 [timedOut |-> FALSE])
  /\ ExecFrame

\* child.on('close')
ChildClose ==
  /\ pc = "Executing"
  /\ exec.child = "exited"
  /\ ~exec.settled
  /\ exec' = [exec EXCEPT !.child = "closed", !.settled = TRUE,
                          !.timer = IF @ = "armed" THEN "cleared" ELSE @]
  /\ IF exec.timedOut
       THEN respondExec(FALSE, ExecOutput(exec.exitCode), "Command timed out",
                        [timedOut |-> TRUE])
       ELSE respondExec(exec.exitCode = 0, ExecOutput(exec.exitCode),
                        IF exec.exitCode # 0 THEN "Command exited with code" ELSE "none",
                        [timedOut |-> FALSE])
  /\ ExecFrame

NextExec ==
  ChildOutput \/ ChildExit \/ ChildKilled \/ ExecTimeout \/ KillTimeout
    \/ ChildError \/ ChildClose

SpecExec == InitExec /\ [][NextExec]_vars

\* a timer of a live process fires, and the stream events of an ended
\* child are delivered
SpecExecLive == SpecExec /\ WF_vars(KillTimeout) /\ WF_vars(ChildClose)

ReportsTimeout(r) ==
  ~r.success /\ r.error = "Command timed out" /\ r.metadata.timedOut

\* ------------------------------------------------------------------------
\* C26: when the timeout timer fires, SIGTERM is passed to child.kill, and
\* unless the child has closed before, the 2-second timer then fires and
\* SIGKILL is passed; at most one response is written; a response written
\* after the timer fired is a failure reporting the timeout, whatever the
\* exit code; a response written before the timer fired follows no signal
\* and does not report a timeout.
\* ------------------------------------------------------------------------
C26_TimeoutEnforced ==
  /\ [](exec.timer = "fired" =>
          /\ exec.kills # <<>> /\ exec.kills[1] = "SIGTERM"
          /\ exec.killTimer = "fired" <=> exec.kills = <<"SIGTERM", "SIGKILL">>)
  /\ [](Len(responses) <= 1)
  /\ []((pc = "Responded" /\ exec.timer = "fired") => ReportsTimeout(responses[1]))
  /\ []((pc = "Responded" /\ exec.timer # "fired") =>
          /\ exec.kills = <<>>
          /\ ~responses[1].metadata.timedOut
          /\ responses[1].error # "Command timed out"
          /\ exec.child = "closed" =>
               (responses[1].success <=> responses[1].output.exitCode = 0))
  /\ (exec.timer = "fired") ~> (pc = "Responded" \/ InSeq("SIGKILL", exec.kills))

\* a child that traps SIGTERM, was sent SIGKILL 2 seconds later and then
\* closed: the response reports the timeout
C26_Witness ==
  /\ pc = "Responded"
  /\ exec.trapsTerm
  /\ exec.kills = <<"SIGTERM", "SIGKILL">>
  /\ exec.child = "closed" /\ exec.exitCode = NullCode
  /\ ReportsTimeout(responses[1])

RECURSIVE HunkBodyNew(_)
\* the lines a hunk body stands for after the edit: its context lines and
\* its Addition lines, in order
HunkBodyNew(ls) ==
  IF ls = <<>> THEN <<>>
  ELSE IF IsRemoval(Head(ls)) THEN HunkBodyNew(Tail(ls))
  ELSE <<Strip1(Head(ls))>> \o HunkBodyNew(Tail(ls))

\* the number of lines of X a hunk body covers: context and Deletion lines
HunkBodyOld(ls) == Len(SelectSeq(ls, LAMBDA l : ~IsAddition(l)))

\* X with the Deletions of the hunk replaced by its Additions, every
\* context line and every line outside the hunk kept
EditedAsMarked(X, h) ==
  JoinLines(SubSeq(X, 1, h.oldStart - 1) \o HunkBodyNew(h.lines)
              \o SubSeq(X, h.oldStart + HunkBodyOld(h.lines), Len(X)))

IsContext(l) == ~IsAddition(l) /\ ~IsRemoval(l)

HasEdit(ls) == \E i \in 1..Len(ls) : ~IsContext(ls[i])

LeadingContext(ls) == ls # <<>> /\ IsContext(ls[1]) /\ HasEdit(ls)

\* no context line comes before an Addition or Deletion line
EditsFirst(ls) ==
  \A i, j \in 1..Len(ls) : (i < j /\ IsContext(ls[i])) => IsContext(ls[j])

\* ------------------------------------------------------------------------
\* C27: for a hunk with leading context whose context and Deletion lines
\* match X from oldStart on, applying the hunk yields X with exactly the
\* Deletions replaced by the Additions, all other lines unchanged.
\* ------------------------------------------------------------------------
C27_ContextKept ==
  (pc = "HunkApplied" /\ ValidHunk(pin.content, pin.patchData.hunks[1])
     /\ LeadingContext(pin.patchData.hunks[1].lines))
    => pout[1].content = EditedAsMarked(pin.content, pin.patchData.hunks[1])

\* C27 for the hunks in which no context line comes before an edit and
\* whose oldStart is a line of X or the line after its last: the result is
\* X edited as marked
C27_ExactWhenEditsFirst ==
  (pc = "HunkApplied" /\ ValidHunk(pin.content, pin.patchData.hunks[1])
     /\ pin.patchData.hunks[1].oldStart <= Len(pin.content) + 1
     /\ EditsFirst(pin.patchData.hunks[1].lines))
    => pout[1].content = EditedAsMarked(pin.content, pin.patchData.hunks[1])

\* resultLines when the loop of applyUnifiedPatch has ended
ResultLines(in) == ApplyHunks(ApplyInit(in.content), in.patchData.hunks).resultLines

\* the splice of the hunk lies within X: its start index is not negative
\* and the lines it is to remove exist
SpliceInBounds(X, h) ==
  /\ h.oldStart - 1 >= 0
  /\ h.oldStart - 1 + Len(Removals(h)) <= Len(X)

\* ------------------------------------------------------------------------
\* C28: the number of lines after applying a FilePatch is the number of
\* lines before, plus linesAdded, minus linesRemoved.
\* ------------------------------------------------------------------------
C28_CountsMatchEdit ==
  pc = "HunkApplied" =>
    /\ pout[1].content = JoinLines(ResultLines(pin))
    /\ Len(ResultLines(pin)) = Len(pin.content) + pout[1].linesAdded - pout[1].linesRemoved

\* C28 for a hunk whose splice lies within X
C28_CountsMatchInBounds ==
  (pc = "HunkApplied" /\ SpliceInBounds(pin.content, pin.patchData.hunks[1])) =>
    Len(ResultLines(pin)) = Len(pin.content) + pout[1].linesAdded - pout[1].linesRemoved

\* C28 as the code has it: the counts are those of the '+' and '-' lines
\* of the hunks, whatever splice did
C28_CountsAreHunkLines ==
  pc = "HunkApplied" =>
    /\ pout[1].linesAdded = CountAdded(pin.patchData.hunks)
    /\ pout[1].linesRemoved = CountRemoved(pin.patchData.hunks)

\* the single segment of the path is an index the top-level array has
TopExistingIndex(in) ==
  /\ in.doc.t = "arr"
  /\ Len(Segments(in.path)) = 1
  /\ IsIndex(Segments(in.path)[1])
  /\ ToIndex(Segments(in.path)[1]) < Len(in.doc.s)

\* the path has two segments and the top-level object lacks the first
TopMissingParent(in) ==
  /\ in.doc.t = "obj"
  /\ Len(Segments(in.path)) = 2
  /\ Segments(in.path)[1] \notin DOMAIN in.doc.f

\* ------------------------------------------------------------------------
\* C29: Add(path, value) and Replace(path, value) give the same outcome on
\* every document: both fail or both yield equal documents.  At an
\* existing index of an array the element is overwritten and the array
\* keeps its length; under a missing key of an object an object holding
\* the value is created.
\* ------------------------------------------------------------------------
C29_AddEqualsReplace ==
  pc = "JsonSet" =>
    /\ pout[1] = pout[2]
    /\ TopExistingIndex(pin) =>
         /\ pout[1].ok
         /\ pout[1].v = [pin.doc EXCEPT !.s[ToIndex(Segments(pin.path)[1]) + 1] = pin.value]
    /\ TopMissingParent(pin) =>
         /\ pout[2].ok
         /\ pout[2].v = Assign(pin.doc, Segments(pin.path)[1],
                               Assign(EmptyObj, Segments(pin.path)[2], pin.value))

\* Add at index 0 of [1, 2] has overwritten the first element, the second
\* is still at index 1, and Replace gave the same document
C29_Witness ==
  /\ pc = "JsonSet"
  /\ pin.doc = DocArr /\ Segments(pin.path) = <<"0">>
  /\ pout[1].ok /\ pout[1].v = Arr(<<pin.value, Prim(2)>>)
  /\ pout[2] = pout[1]

\* the configuration file in effect declares at least one allowedPaths entry
DeclaresEntries == cfg.source # "none" /\ cfg.allowedPaths # <<>>

\* the declared allowedPaths entries, resolved against the workspace root
DeclaredList == [i \in 1..Len(cfg.allowedPaths) |-> CanonicalOf(cfg.allowedPaths[i])]

\* ------------------------------------------------------------------------
\* C30: when the configuration in effect declares an allowedPaths entry,
\* a target passes the access check only if it is contained in a declared
\* entry.
\* ------------------------------------------------------------------------
C30_NeverFailsOpen ==
  ((GitAccepted \/ pc = "JValidate") /\ DeclaresEntries) =>
    InSomeEntry(resolved, DeclaredList, fs)

\* C30 as the code has it: a target outside every declared entry passes
\* only when the loaded list is empty (every entry discarded, or the
\* reading threw), and then every target passes
C30_OpenOnlyWhenListEmpty ==
  ((GitAccepted \/ pc = "JValidate") /\ DeclaresEntries
     /\ ~InSomeEntry(resolved, DeclaredList, fs))
    => LoadedList = <<>>

====
